---- MODULE Spec2Model ----
(***************************************************************************)
(* Catalog, cache, search index and search of DatabaseManager              *)
(* (src/src/core/database_manager.py) and the search thread that calls it  *)
(* (src/src/gui/search_dialog.py).                                         *)
(*                                                                         *)
(* Representation.                                                         *)
(*  - A Python str / SQLite TEXT is a sequence of one-character strings.   *)
(*  - A cell is a tagged value: null, int or text.                         *)
(*  - A Python list whose elements repeat (table rows, postings, results)  *)
(*    is held run-length coded: a sequence of blocks [items, n] standing   *)
(*    for the list  items \o items \o ... (n times).  Every list operation *)
(*    of the code (len, slice, append, filter, LIMIT) is defined on that   *)
(*    coding, so that tables of 1000 and 1001 rows are modelled with the   *)
(*    program's own thresholds.                                            *)
(*  - A Python dict is an insertion-ordered sequence of <<key, value>>.    *)
(***************************************************************************)
EXTENDS Integers, Sequences, FiniteSets, TLC

(***************************************************************************)
(* Bounds of the model                                                     *)
(***************************************************************************)
\* filler rows of a table: 0 .. MaxSmall, besides the counts at the thresholds
MaxSmall == 2
\* offsets tried by get_table_data: 0 .. MaxOffset
MaxOffset == 1
\* connections left open at one time: a load that would exceed it is not run
MaxConnections == 6
\* the longest short padding appended to a signature
MaxPad == 2

(***************************************************************************)
(* Program constants                                                       *)
(***************************************************************************)
\* load_databases: "if row_count <= 1000"
CACHE_MAX_ROWS == 1000
\* global_search: "if len(results) < 100"
INDEX_ENOUGH == 100
\* _search_database: "LIMIT 100" of the LIKE query
LIKE_LIMIT == 100
\* _search_database: "LIMIT 10000" of the regex scan
REGEX_LIMIT == 10000
\* get_table_data: default of the parameter limit
DEFAULT_LIMIT == 1000
\* global_search(self, search_term, case_sensitive, use_regex): positional
\* parameters accepted besides self
GLOBAL_SEARCH_PARAMS == 3
\* export_all_attachments: "len(value) > 150"
ATTACHMENT_MIN == 150

(***************************************************************************)
(* Generic sequence helpers                                                *)
(***************************************************************************)
RECURSIVE Flatten(_)
Flatten(ss) == IF ss = <<>> THEN <<>> ELSE Head(ss) \o Flatten(Tail(ss))

Range(s) == {s[i] : i \in 1..Len(s)}

\* Flatten by halves: for lists as long as a byte string
RECURSIVE Concat(_)
Concat(ss) ==
    IF ss = <<>> THEN <<>>
    ELSE IF Len(ss) = 1 THEN ss[1]
    ELSE Concat(SubSeq(ss, 1, Len(ss) \div 2))
         \o Concat(SubSeq(ss, (Len(ss) \div 2) + 1, Len(ss)))

RECURSIVE SumSeq(_)
SumSeq(s) == IF s = <<>> THEN 0 ELSE Head(s) + SumSeq(Tail(s))

Min(a, b) == IF a < b THEN a ELSE b

(***************************************************************************)
(* Python str                                                              *)
(***************************************************************************)
UpperChars == <<"A", "B", "C", "D", "L", "W", "N">>
LowerChars == <<"a", "b", "c", "d", "l", "w", "n">>

\* str.lower() / SQLite LOWER() on one ASCII character
LowerChar(c) ==
    IF \E i \in 1..Len(UpperChars) : UpperChars[i] = c
    THEN LowerChars[CHOOSE i \in 1..Len(UpperChars) : UpperChars[i] = c]
    ELSE c

\* str.lower()
StrLower(s) == [i \in 1..Len(s) |-> LowerChar(s[i])]

\* "sub in s"
Contains(s, sub) ==
    \E i \in 0..(Len(s) - Len(sub)) :
        \A j \in 1..Len(sub) : s[i + j] = sub[j]

\* the characters of the names and labels the model uses
Str(name) ==
    CASE name = "p1" -> <<"p", "1">>
      [] name = "p2" -> <<"p", "2">>
      [] name = "databases" -> <<"d", "a", "t", "a", "b", "a", "s", "e", "s">>
      [] name = "files" -> <<"f", "i", "l", "e", "s">>
      [] name = "a.db" -> <<"a", ".", "d", "b">>
      [] name = "contacts.db" -> <<"c", "o", "n", "t", "a", "c", "t", "s", ".", "d", "b">>
      [] name = "attachments" -> <<"a", "t", "t", "a", "c", "h", "m", "e", "n", "t", "s">>
      [] name = "logs" -> <<"l", "o", "g", "s">>
      [] name = "my table" -> <<"m", "y", " ", "t", "a", "b", "l", "e">>
      [] name = "people" -> <<"p", "e", "o", "p", "l", "e">>
      [] name = "id" -> <<"i", "d">>
      [] name = "name" -> <<"n", "a", "m", "e">>
      [] name = "data" -> <<"d", "a", "t", "a">>
      [] name = "thumb" -> <<"t", "h", "u", "m", "b">>
      [] name = "tag" -> <<"t", "a", "g">>
      [] name = "msg" -> <<"m", "s", "g">>
      [] name = ".jpg" -> <<".", "j", "p", "g">>
      [] name = ".png" -> <<".", "p", "n", "g">>
      [] name = ".gif" -> <<".", "g", "i", "f">>
      [] name = ".bmp" -> <<".", "b", "m", "p">>
      [] name = ".zip" -> <<".", "z", "i", "p">>
      [] name = ".gz" -> <<".", "g", "z">>
      [] name = ".bz2" -> <<".", "b", "z", "2">>
      [] name = ".xz" -> <<".", "x", "z">>
      [] name = ".zstd" -> <<".", "z", "s", "t", "d">>
      [] name = ".tar" -> <<".", "t", "a", "r">>
      [] name = ".7z" -> <<".", "7", "z">>
      [] name = ".rar" -> <<".", "r", "a", "r">>
      [] name = ".zlib" -> <<".", "z", "l", "i", "b">>
      [] name = ".mp3" -> <<".", "m", "p", "3">>
      [] name = ".flac" -> <<".", "f", "l", "a", "c">>
      [] name = ".ogg" -> <<".", "o", "g", "g">>
      [] name = ".mp4" -> <<".", "m", "p", "4">>
      [] name = ".mpeg" -> <<".", "m", "p", "e", "g">>
      [] name = ".mkv" -> <<".", "m", "k", "v">>
      [] name = ".3gp" -> <<".", "3", "g", "p">>
      [] name = ".pdf" -> <<".", "p", "d", "f">>
      [] name = ".xml" -> <<".", "x", "m", "l">>
      [] name = ".html" -> <<".", "h", "t", "m", "l">>
      [] name = ".txt" -> <<".", "t", "x", "t">>
      [] name = ".ps" -> <<".", "p", "s">>
      [] name = ".doc" -> <<".", "d", "o", "c">>
      [] name = ".ttf" -> <<".", "t", "t", "f">>
      [] name = ".otf" -> <<".", "o", "t", "f">>
      [] name = ".elf" -> <<".", "e", "l", "f">>
      [] name = ".exe" -> <<".", "e", "x", "e">>
      [] name = ".swf" -> <<".", "s", "w", "f">>
      [] name = ".db" -> <<".", "d", "b">>
      [] name = ".qcow" -> <<".", "q", "c", "o", "w">>
      [] name = ".wav" -> <<".", "w", "a", "v">>

Digits == <<"0", "1", "2", "3", "4", "5", "6", "7", "8", "9">>

\* str(n) for an int n >= 0
RECURSIVE IntStr(_)
IntStr(n) == IF n < 10 THEN <<Digits[n + 1]>>
             ELSE IntStr(n \div 10) \o <<Digits[(n % 10) + 1]>>

\* str.split(): maximal runs of non-whitespace characters, found by their
\* first and last positions
StrSplit(s) ==
    LET starts == SelectSeq([i \in 1..Len(s) |-> i],
                      LAMBDA i : s[i] # " " /\ (i = 1 \/ s[i - 1] = " "))
        ends == SelectSeq([i \in 1..Len(s) |-> i],
                    LAMBDA i : s[i] # " " /\ (i = Len(s) \/ s[i + 1] = " "))
    IN [k \in 1..Len(starts) |-> SubSeq(s, starts[k], ends[k])]

\* s.replace(',', ' ').replace('.', ' ').replace(':', ' ')
ReplacePunct(s) ==
    [i \in 1..Len(s) |-> IF s[i] \in {",", ".", ":"} THEN " " ELSE s[i]]

(***************************************************************************)
(* Cells: the values sqlite3 hands to Python (None, int, str, bytes)       *)
(***************************************************************************)
Null == [t |-> "null", i |-> 0, s |-> <<>>]
IntCell(n) == [t |-> "int", i |-> n, s |-> <<>>]
TextCell(s) == [t |-> "text", i |-> 0, s |-> s]

(***************************************************************************)
(* bytes values: BLOB cells, and str() of them                             *)
(***************************************************************************)
\* a BLOB cell names its bytes by their number in BlobValues
BlobCell(k) == [t |-> "blob", i |-> k, s |-> <<>>]

\* b'a' * n
Fill(n) == [k \in 1..n |-> 97]

\* the bytes of the model's BLOBs: a JPEG just above the size threshold of
\* the export, a JPEG of exactly that size, a gzip stream, unrecognised bytes
BlobValues ==
    << <<255, 216, 255>> \o Fill(ATTACHMENT_MIN - 2),
       <<255, 216, 255>> \o Fill(ATTACHMENT_MIN - 3),
       <<31, 139, 8>> \o Fill(ATTACHMENT_MIN - 2),
       Fill(ATTACHMENT_MIN + 1) >>

BlobBytes(c) == BlobValues[c.i]

HexDigits == <<"0", "1", "2", "3", "4", "5", "6", "7", "8", "9",
               "a", "b", "c", "d", "e", "f">>

\* chr(32) .. chr(126); "GRAVE" stands for chr(96), which no string of this
\* language can hold
Printable == <<
    " ", "!", "\"", "#", "$", "%", "&", "'", "(", ")", "*", "+", ",", "-", ".", "/",
    "0", "1", "2", "3", "4", "5", "6", "7", "8", "9", ":", ";", "<", "=", ">", "?",
    "@", "A", "B", "C", "D", "E", "F", "G", "H", "I", "J", "K", "L", "M", "N", "O",
    "P", "Q", "R", "S", "T", "U", "V", "W", "X", "Y", "Z", "[", "\\", "]", "^", "_",
    "GRAVE", "a", "b", "c", "d", "e", "f", "g", "h", "i", "j", "k", "l", "m", "n", "o",
    "p", "q", "r", "s", "t", "u", "v", "w", "x", "y", "z", "{", "|", "}", "~" >>

\* repr of one byte inside a bytes literal delimited by quote
ByteRepr(x, quote) ==
    IF x = 9 THEN <<"\\", "t">>
    ELSE IF x = 10 THEN <<"\\", "n">>
    ELSE IF x = 13 THEN <<"\\", "r">>
    ELSE IF x = 92 THEN <<"\\", "\\">>
    ELSE IF x = quote THEN <<"\\", Printable[x - 31]>>
    ELSE IF x \in 32..126 THEN <<Printable[x - 31]>>
    ELSE <<"\\", "x", HexDigits[(x \div 16) + 1], HexDigits[(x % 16) + 1]>>

\* str(b) of a bytes value: delimited by an apostrophe, or by a double
\* quote when b holds an apostrophe and no double quote
BytesRepr(b) ==
    LET quote == IF 39 \in Range(b) /\ 34 \notin Range(b) THEN 34 ELSE 39
    IN <<"b", Printable[quote - 31]>>
       \o Concat([k \in 1..Len(b) |-> ByteRepr(b[k], quote)])
       \o <<Printable[quote - 31]>>

\* str(value)
PyStr(c) ==
    CASE c.t = "null" -> <<"N", "o", "n", "e">>
      [] c.t = "int"  -> IntStr(c.i)
      [] c.t = "blob" -> BytesRepr(BlobBytes(c))
      [] OTHER        -> c.s

\* the TEXT that SQLite's LOWER()/LIKE see for a non-NULL value
SqlText(c) == IF c.t = "int" THEN IntStr(c.i) ELSE c.s

(***************************************************************************)
(* SQLite text matching                                                    *)
(***************************************************************************)
\* x LIKE p: '%' is any run of characters, '_' any one character, every
\* other character matches itself without regard to ASCII case
RECURSIVE LikeFrom(_, _, _, _)
LikeFrom(p, i, s, j) ==
    IF i > Len(p) THEN j > Len(s)
    ELSE IF p[i] = "%"
         THEN \E k \in j..(Len(s) + 1) : LikeFrom(p, i + 1, s, k)
         ELSE /\ j <= Len(s)
              /\ (p[i] = "_" \/ LowerChar(p[i]) = LowerChar(s[j]))
              /\ LikeFrom(p, i + 1, s, j + 1)

SqlLike(s, p) == LikeFrom(p, 1, s, 1)

\* '%{search_pattern}%' is a string literal of the statement only when the
\* interpolated text closes no quote (the terms of the model hold at most
\* one quote character, which always leaves the literal unbalanced)
SqlLiteralOk(pattern) == "'" \notin Range(pattern)

(***************************************************************************)
(* Python re, for the patterns of the model: literal characters, '.', and  *)
(* '*' after an atom; a parenthesis of the model's patterns is unbalanced  *)
(***************************************************************************)
\* re.compile(pattern) succeeds
RegexValid(p) ==
    /\ \A i \in 1..Len(p) : p[i] \notin {"(", ")"}
    /\ (p # <<>> => p[1] # "*")
    /\ \A i \in 1..(Len(p) - 1) : ~(p[i] = "*" /\ p[i + 1] = "*")

RegexAtom(a, c, ic) ==
    \/ a = "."
    \/ (IF ic THEN LowerChar(a) = LowerChar(c) ELSE a = c)

\* the pattern from position i matches a prefix of s that starts at j
RECURSIVE RegexFrom(_, _, _, _, _)
RegexFrom(p, i, s, j, ic) ==
    IF i > Len(p) THEN TRUE
    ELSE IF i < Len(p) /\ p[i + 1] = "*"
         THEN \/ RegexFrom(p, i + 2, s, j, ic)
              \/ /\ j <= Len(s)
                 /\ RegexAtom(p[i], s[j], ic)
                 /\ RegexFrom(p, i, s, j + 1, ic)
         ELSE /\ j <= Len(s)
              /\ RegexAtom(p[i], s[j], ic)
              /\ RegexFrom(p, i + 1, s, j + 1, ic)

\* regex_pattern.search(s) is not None, flags = re.IGNORECASE iff ic
RegexSearch(p, s, ic) == \E j \in 1..(Len(s) + 1) : RegexFrom(p, 1, s, j, ic)

(***************************************************************************)
(* Run-length coded lists                                                  *)
(***************************************************************************)
Block(items, n) == [items |-> items, n |-> n]

\* the list [x] * n
Rep(x, n) == IF n = 0 THEN <<>> ELSE <<Block(<<x>>, n)>>

\* len(list)
RECURSIVE BLen(_)
BLen(bs) == IF bs = <<>> THEN 0
            ELSE Len(Head(bs).items) * Head(bs).n + BLen(Tail(bs))

\* list[:k], k >= 0
RECURSIVE BTake(_, _)
BTake(bs, k) ==
    IF bs = <<>> \/ k <= 0 THEN <<>>
    ELSE LET b == Head(bs)
             w == Len(b.items)
             total == w * b.n
         IN IF total <= k THEN <<b>> \o BTake(Tail(bs), k - total)
            ELSE (IF k \div w > 0 THEN <<Block(b.items, k \div w)>> ELSE <<>>)
                 \o (IF k % w > 0
                     THEN <<Block(SubSeq(b.items, 1, k % w), 1)>> ELSE <<>>)

\* list[k:], k >= 0
RECURSIVE BDrop(_, _)
BDrop(bs, k) ==
    IF bs = <<>> THEN <<>>
    ELSE IF k <= 0 THEN bs
    ELSE LET b == Head(bs)
             w == Len(b.items)
             total == w * b.n
         IN IF total <= k THEN BDrop(Tail(bs), k - total)
            ELSE (IF k % w > 0
                  THEN <<Block(SubSeq(b.items, (k % w) + 1, w), 1)>> ELSE <<>>)
                 \o (IF b.n - (k \div w) - (IF k % w > 0 THEN 1 ELSE 0) > 0
                     THEN <<Block(b.items,
                                  b.n - (k \div w) - (IF k % w > 0 THEN 1 ELSE 0))>>
                     ELSE <<>>)
                 \o Tail(bs)

\* list[a:b] for 0 <= a
BSlice(bs, a, b) == BTake(BDrop(bs, a), b - a)

\* [y for x in list for y in F(x)]
BFlatMap(bs, F(_)) ==
    LET mapped == [k \in 1..Len(bs) |->
                     Block(Flatten([m \in 1..Len(bs[k].items) |-> F(bs[k].items[m])]),
                           bs[k].n)]
    IN SelectSeq(mapped, LAMBDA b : b.items # <<>>)

\* [x for x in list if P(x)]
BFilter(bs, P(_)) == BFlatMap(bs, LAMBDA x : IF P(x) THEN <<x>> ELSE <<>>)

\* the elements of the list, as a set
BSet(bs) == UNION {Range(bs[k].items) : k \in 1..Len(bs)}

\* the i-th element of the list, 1 <= i <= BLen(bs)
RECURSIVE BAt(_, _)
BAt(bs, i) ==
    LET b == Head(bs)
        total == Len(b.items) * b.n
    IN IF i <= total THEN b.items[((i - 1) % Len(b.items)) + 1]
       ELSE BAt(Tail(bs), i - total)

\* one coding for each list of runs of single elements: no empty block,
\* no two adjacent blocks of the same element
RECURSIVE BNorm(_)
BNorm(bs) ==
    IF bs = <<>> THEN <<>>
    ELSE LET rest == BNorm(Tail(bs))
             b == Head(bs)
         IN IF b.items = <<>> \/ b.n = 0 THEN rest
            ELSE IF rest # <<>> /\ Head(rest).items = b.items /\ Len(b.items) = 1
                 THEN <<Block(b.items, b.n + Head(rest).n)>> \o Tail(rest)
                 ELSE <<b>> \o rest

(***************************************************************************)
(* Python dict: insertion-ordered <<key, value>> pairs                     *)
(***************************************************************************)
DictKeys(d) == [k \in 1..Len(d) |-> d[k][1]]
DictHas(d, key) == \E k \in 1..Len(d) : d[k][1] = key
DictGet(d, key) == d[CHOOSE k \in 1..Len(d) : d[k][1] = key][2]
\* d[key] = value: a key already present keeps its position
DictPut(d, key, value) ==
    IF DictHas(d, key)
    THEN [k \in 1..Len(d) |-> IF d[k][1] = key THEN <<key, value>> ELSE d[k]]
    ELSE Append(d, <<key, value>>)

(***************************************************************************)
(* The input domain: text values, rows, tables, database files             *)
(***************************************************************************)
S_ab     == <<"a", "b">>
S_abx    == <<"a", "b", "x">>
S_xab    == <<"x", "a", "b">>
S_q      == <<"q">>
S_aqb    == <<"a", "'", "b">>
S_AB_cd  == <<"A", "B", " ", "c", "d">>
S_ab_cd  == <<"a", "b", " ", "c", "d">>
S_ab_ab  == <<"a", "b", " ", "a", "b">>
S_Alice  == <<"A", "l", "i", "c", "e", " ", "W", "a", "n", "g">>
S_Bob    == <<"B", "o", "b", " ", "L", "e", "e">>
S_wang   == <<"w", "a", "n", "g">>
S_punct  == <<"A", "B", ",", "c", "d", ".", " ", "x", ":", "a", "b">>

\* rows of table logs(tag, msg) that fill a table
FillRows == { <<TextCell(S_ab), Null>>,
              <<TextCell(S_ab), TextCell(S_ab)>>,
              <<TextCell(S_q), Null>> }

\* the last row of table logs
ProbeRows == { <<Null, TextCell(S_xab)>>,
               <<TextCell(S_abx), Null>>,
               <<TextCell(S_aqb), Null>>,
               <<TextCell(S_AB_cd), TextCell(S_ab_cd)>>,
               <<TextCell(S_ab_ab), IntCell(12)>> }

\* numbers of filler rows: small ones, and those that put the table, or the
\* matches of one column, just below and just above the program's thresholds
FillCounts == (0..MaxSmall) \cup {INDEX_ENOUGH - 1, INDEX_ENOUGH,
                                  CACHE_MAX_ROWS - 1, CACHE_MAX_ROWS}

LogsTable(f, nf, p) ==
    [columns |-> <<"tag", "msg">>, rows |-> Rep(f, nf) \o Rep(p, 1)]

\* table people(id, name) of contacts.db
PeopleTable ==
    [columns |-> <<"id", "name">>,
     rows |-> Rep(<<IntCell(1), TextCell(S_Alice)>>, 1)
              \o Rep(<<IntCell(2), TextCell(S_Bob)>>, 1)]

\* table people(id, name) of a.db
StaffTable ==
    [columns |-> <<"id", "name">>,
     rows |-> Rep(<<IntCell(1), TextCell(S_xab)>>, 1)]

\* table people(id, name) with a value that holds punctuation
PunctTable ==
    [columns |-> <<"id", "name">>,
     rows |-> Rep(<<IntCell(1), TextCell(S_xab)>>, 1)
              \o Rep(<<IntCell(2), TextCell(S_punct)>>, 1)]

\* a table whose name is no bare SQL identifier
SpacedTable(n) ==
    [columns |-> <<"id", "name">>,
     rows |-> Rep(<<IntCell(7), TextCell(S_ab)>>, n)]

\* a database file that holds table logs alone
LogsDbs ==
    { [tables |-> <<  <<"logs", LogsTable(f, nf, p)>>  >>] :
          f \in FillRows, nf \in FillCounts, p \in ProbeRows }

\* database files of three tables, in the order of their creation
MixedDbs ==
    { [tables |-> <<  <<"people", StaffTable>>,
                      <<"logs", LogsTable(<<TextCell(S_ab), Null>>, nf,
                                          <<Null, TextCell(S_xab)>>)>>,
                      <<"my table", SpacedTable(n)>>  >>] :
          nf \in {0, INDEX_ENOUGH}, n \in {MaxSmall, CACHE_MAX_ROWS + 1} }

\* database files whose table logs ends just below and just above the row
\* limit of the regex scan
CappedDbs ==
    { [tables |-> <<  <<"logs", LogsTable(<<TextCell(S_q), Null>>, nf, p)>>  >>] :
          nf \in {REGEX_LIMIT - 1, REGEX_LIMIT},
          p \in { <<TextCell(S_abx), Null>>, <<Null, TextCell(S_xab)>> } }

ContactsDb == [tables |-> <<  <<"people", PeopleTable>>  >>]

PathA == "/data/data/p1/databases/a.db"
PathC == "/data/data/p2/databases/contacts.db"

\* the files of the extracted image: path -> database file
Disks ==
    { (PathA :> a) : a \in LogsDbs \cup CappedDbs }
    \cup { (PathC :> ContactsDb) }
    \cup { (PathA :> a) @@ (PathC :> ContactsDb) : a \in MixedDbs }

DbFile(name, path) == [file_name |-> name, file_path |-> path]
Package(name, files) == [package_name |-> name, database_files |-> files]

\* the package lists handed to load_databases
PackageLists ==
    { << Package("p1", << <<"databases", <<DbFile("a.db", PathA)>> >> >>),
         Package("p2", << <<"databases", <<DbFile("contacts.db", PathC)>> >> >>) >> }

\* a second file named a.db, in a subdirectory of p1/databases: the parser
\* lists it under the logical directory "databases" as well
PathA2 == "/data/data/p1/databases/sub/a.db"

\* the images the loads of several package lists run on
ReloadDisks ==
    { [path \in present |-> IF path = PathA THEN a
                            ELSE IF path = PathA2 THEN [tables |-> << <<"people", PunctTable>> >>]
                            ELSE ContactsDb] :
          a \in { [tables |-> << <<"logs", LogsTable(<<TextCell(S_ab), Null>>, nf,
                                                    <<TextCell(S_abx), Null>>)>> >>] :
                      nf \in (0..MaxSmall) \cup {CACHE_MAX_ROWS} } \cup MixedDbs,
          present \in { ps \in SUBSET {PathA, PathA2, PathC} : PathA \in ps } }

\* the package lists of these loads: the usual one; two files of one
\* logical directory with the same name; one package; two packages with the
\* same name; no package; the second file alone
ReloadLists ==
    PackageLists \cup
    { << Package("p1", << <<"databases", <<DbFile("a.db", PathA),
                                           DbFile("a.db", PathA2)>> >> >>) >>,
      << Package("p2", << <<"databases", <<DbFile("contacts.db", PathC)>> >> >>) >>,
      << Package("p1", << <<"databases", <<DbFile("a.db", PathA)>> >> >>),
         Package("p1", << <<"files", <<DbFile("a.db", PathA2)>> >> >>) >>,
      << >>,
      << Package("p1", << <<"databases", <<DbFile("a.db", PathA2)>> >> >>) >> }

\* table attachments(id, data, thumb)
AttachmentRows ==
    { <<IntCell(1), BlobCell(1), Null>>,
      <<IntCell(2), BlobCell(3), BlobCell(1)>>,
      <<IntCell(3), BlobCell(2), TextCell(S_ab)>>,
      <<IntCell(4), BlobCell(4), Null>> }

\* the rows a table repeats
RepeatedRows ==
    { <<IntCell(2), BlobCell(3), BlobCell(1)>> }

AttachmentsTable(f, nf, p) ==
    [columns |-> <<"id", "data", "thumb">>, rows |-> Rep(f, nf) \o Rep(p, 1)]

\* a table of BLOBs whose name is no bare SQL identifier
SpacedBlobTable ==
    [columns |-> <<"id", "data">>, rows |-> Rep(<<IntCell(1), BlobCell(1)>>, 1)]

\* database files with attachments
SpacedExportDbs ==
    { [tables |-> <<  <<"attachments", AttachmentsTable(p, 0, p)>>,
                      <<"my table", SpacedBlobTable>>  >>] : p \in AttachmentRows }

ExportDbs ==
    { [tables |-> <<  <<"attachments", AttachmentsTable(f, nf, p)>>  >>] :
          f \in RepeatedRows, nf \in 0..MaxSmall, p \in AttachmentRows }
    \cup SpacedExportDbs

PathF == "/data/data/p1/files/a.db"
PathB == "/data/data/p2/databases/a.db"

\* images in which a.db of p1/databases has a copy in p1/files, and p2 has
\* a database of the same name: a copy as well, or a file of its own
ExportDisks ==
    { (PathA :> a) @@ (PathF :> a) @@ (PathB :> a) : a \in ExportDbs }
    \cup
    { (PathA :> a) @@ (PathF :> a)
      @@ (PathB :> [tables |-> << <<"attachments",
                       AttachmentsTable(<<IntCell(1), BlobCell(1), Null>>, 0,
                                        <<IntCell(1), BlobCell(1), Null>>)>> >>]) :
          a \in SpacedExportDbs }

\* the database files that cannot be opened during an export
Unopenable == { {}, {PathA}, {PathB} }

\* the package lists loaded before an export: two packages; two logical
\* directories of one package; one database
ExportLists ==
    { << Package("p1", << <<"databases", <<DbFile("a.db", PathA)>> >> >>),
         Package("p2", << <<"databases", <<DbFile("a.db", PathB)>> >> >>) >>,
      << Package("p1", << <<"databases", <<DbFile("a.db", PathA)>> >>,
                          <<"files", <<DbFile("a.db", PathF)>> >> >>) >>,
      << Package("p1", << <<"databases", <<DbFile("a.db", PathA)>> >> >>) >> }

\* names of the model in the order of "ORDER BY name"
NameOrder == <<"attachments", "logs", "my table", "people">>

\* a table name that the statement text "... FROM {table_name}" and
\* "PRAGMA table_info({table_name})" names: "my table" makes both a syntax
\* error, "[my table]" does not
BareIdentifier(name) == name # "my table"

(***************************************************************************)
(* State                                                                   *)
(***************************************************************************)
VARIABLES
    disk,          \* file path -> database file (the extracted image)
    databases,     \* self.databases
    cached_data,   \* self.cached_data
    search_index,  \* self.search_index: word -> list of postings
    ret,           \* the last call of the manager and what it returned
    thread,        \* the SearchThread of the dialog
    connections,   \* number of sqlite3 connections opened and not closed
    output         \* the files under ./output: path -> bytes written

vars == <<disk, databases, cached_data, search_index, ret, thread, connections,
         output>>

(***************************************************************************)
(* Table Accessor                                                          *)
(***************************************************************************)
FileTables(path) == disk[path].tables

\* _get_table_names
_get_table_names(path) ==
    SelectSeq(NameOrder, LAMBDA n : DictHas(FileTables(path), n))

\* _get_table_row_count: the count, 0 when the statement fails
_get_table_row_count(path, table_name) ==
    IF BareIdentifier(table_name)
    THEN BLen(DictGet(FileTables(path), table_name).rows)
    ELSE 0

\* _load_table_data without limit: <<columns, rows>>, <<[], []>> on failure
_load_table_data(path, table_name) ==
    IF BareIdentifier(table_name)
    THEN << DictGet(FileTables(path), table_name).columns,
            DictGet(FileTables(path), table_name).rows >>
    ELSE << <<>>, <<>> >>

\* _get_table_columns
_get_table_columns(path, table_name) ==
    IF BareIdentifier(table_name)
    THEN DictGet(FileTables(path), table_name).columns
    ELSE <<>>

\* the connections a call of _get_table_row_count, _load_table_data or
\* _get_table_columns returns with: conn.close() stands after the query
\* inside the try, and the except clause returns without it
LeftOpen(table_name) == IF BareIdentifier(table_name) THEN 0 ELSE 1


(***************************************************************************)
(* Catalog: load_databases                                                 *)
(***************************************************************************)
CachedTableData(columns, rows, total_rows) ==
    [columns |-> columns, rows |-> rows, total_rows |-> total_rows]

DatabaseInfo(package_name, database_name, database_path, parent_dir, tables) ==
    [package_name |-> package_name, database_name |-> database_name,
     database_path |-> database_path, parent_dir |-> parent_dir,
     tables |-> tables]

\* the comparison written as "<": a table of exactly 1000 rows is left out
SmallTableStrict(row_count) == row_count < CACHE_MAX_ROWS

\* "if row_count <= 1000"
SmallTable(row_count) == row_count <= CACHE_MAX_ROWS

\* the loop over db_info.tables: table_cache
TableCache(path, tables) ==
    LET kept == SelectSeq(tables,
                    LAMBDA t : SmallTable(_get_table_row_count(path, t)))
    IN [k \in 1..Len(kept) |->
          << kept[k],
             CachedTableData(_load_table_data(path, kept[k])[1],
                             _load_table_data(path, kept[k])[2],
                             _get_table_row_count(path, kept[k])) >>]

\* the connections the loop over db_info.tables leaves open: one for each
\* failed count, one for each failed load of a table taken for small
TableCacheLeftOpen(path, tables) ==
    SumSeq([k \in 1..Len(tables) |->
               LeftOpen(tables[k])
               + IF SmallTable(_get_table_row_count(path, tables[k]))
                 THEN LeftOpen(tables[k]) ELSE 0])

\* the loop over db_files: <<dir_dbs, dir_cache, connections left open>>
RECURSIVE LoadDir(_, _, _, _)
LoadDir(package_name, parent_dir, db_files, acc) ==
    IF db_files = <<>> THEN acc
    ELSE LET f == Head(db_files)
             tables == _get_table_names(f.file_path)
             next ==
                 IF f.file_path \in DOMAIN disk   \* os.path.exists
                 THEN << DictPut(acc[1], f.file_name,
                                 DatabaseInfo(package_name, f.file_name,
                                              f.file_path, parent_dir, tables)),
                         DictPut(acc[2], f.file_name,
                                 TableCache(f.file_path, tables)),
                         acc[3] + TableCacheLeftOpen(f.file_path, tables) >>
                 ELSE acc
         IN LoadDir(package_name, parent_dir, Tail(db_files), next)

\* the loop over package.database_files:
\* <<package_dbs, package_cache, connections left open>>
RECURSIVE LoadPackage(_, _, _)
LoadPackage(package_name, database_files, acc) ==
    IF database_files = <<>> THEN acc
    ELSE LET parent_dir == Head(database_files)[1]
             d == LoadDir(package_name, parent_dir, Head(database_files)[2],
                          << <<>>, <<>>, 0 >>)
             next == IF d[1] # <<>>
                     THEN << DictPut(acc[1], parent_dir, d[1]),
                             DictPut(acc[2], parent_dir, d[2]), acc[3] + d[3] >>
                     ELSE << acc[1], acc[2], acc[3] + d[3] >>
         IN LoadPackage(package_name, Tail(database_files), next)

\* the loop over packages:
\* <<self.databases, self.cached_data, connections left open>>
RECURSIVE LoadPackages(_, _)
LoadPackages(packages, acc) ==
    IF packages = <<>> THEN acc
    ELSE LET package == Head(packages)
             p == LoadPackage(package.package_name, package.database_files,
                              << <<>>, <<>>, 0 >>)
             next == IF package.database_files # <<>> /\ p[1] # <<>>
                     THEN << DictPut(acc[1], package.package_name, p[1]),
                             DictPut(acc[2], package.package_name, p[2]),
                             acc[3] + p[3] >>
                     ELSE << acc[1], acc[2], acc[3] + p[3] >>
         IN LoadPackages(Tail(packages), next)

\* self.cached_data.get(p, {}).get(d, {}).get(db, {}).get(table):
\* <<the entry>>, or <<>> for None
CacheGet(cache, package_name, parent_dir, db_name, table_name) ==
    IF /\ DictHas(cache, package_name)
       /\ DictHas(DictGet(cache, package_name), parent_dir)
       /\ DictHas(DictGet(DictGet(cache, package_name), parent_dir), db_name)
       /\ DictHas(DictGet(DictGet(DictGet(cache, package_name), parent_dir),
                          db_name), table_name)
    THEN << DictGet(DictGet(DictGet(DictGet(cache, package_name), parent_dir),
                            db_name), table_name) >>
    ELSE <<>>

\* the DatabaseInfo objects in the order of the nested loops over
\* self.databases.items()
DbInfos(dbs) ==
    Flatten([i \in 1..Len(dbs) |->
        Flatten([j \in 1..Len(dbs[i][2]) |->
            [k \in 1..Len(dbs[i][2][j][2]) |-> dbs[i][2][j][2][k][2]]])])

\* the tables each connection of a load runs statements on, for the
\* databases of the catalog: _get_table_names reads sqlite_master alone;
\* _get_table_row_count and _load_table_data of a table taken for small
\* open a connection each, and so does _get_table_columns when
\* _build_search_index comes to the table
LoadScopes(dbs) ==
    LET infos == DbInfos(dbs)
        preload(info) ==
            << <<>> >> \o
            Flatten([t \in 1..Len(info.tables) |->
               << <<info.tables[t]>> >>
               \o (IF SmallTable(_get_table_row_count(info.database_path,
                                                      info.tables[t]))
                   THEN << <<info.tables[t]>> >> ELSE <<>>)])
        index(info) == [t \in 1..Len(info.tables) |-> <<info.tables[t]>>]
    IN Flatten([i \in 1..Len(infos) |-> preload(infos[i])])
       \o Flatten([i \in 1..Len(infos) |-> index(infos[i])])

(***************************************************************************)
(* Search Index: _build_search_index, _add_to_search_index                 *)
(***************************************************************************)
\* dict(zip(columns, row))
RowData(columns, row) ==
    [k \in 1..Min(Len(columns), Len(row)) |-> <<columns[k], row[k]>>]

\* an index posting and a SearchResult carry the same fields
SearchResult(package_name, database_name, table_name, column_name, row_data, match_value, parent_dir) ==
    [package_name |-> package_name, database_name |-> database_name,
     table_name |-> table_name, column_name |-> column_name,
     row_data |-> row_data, match_value |-> match_value,
     parent_dir |-> parent_dir]

\* value_str.replace(...).split() of str(value).lower()
IndexWords(value) == StrSplit(ReplacePunct(StrLower(PyStr(value))))

\* the mutation "if len(word) > 0"
IndexableFromOne(word) == Len(word) > 0

\* "if len(word) > 1"
Indexable(word) == Len(word) > 1

\* _add_to_search_index: the <<word, posting>> pairs one row appends, in
\* the order of the loops over row_data.items() and over words
_add_to_search_index(package_name, parent_dir, db_name, table_name, row_data) ==
    Flatten([c \in 1..Len(row_data) |->
        IF row_data[c][2] # Null
        THEN LET words == SelectSeq(IndexWords(row_data[c][2]), Indexable)
             IN [w \in 1..Len(words) |->
                   << words[w],
                      SearchResult(package_name, db_name, table_name,
                                   row_data[c][1], row_data,
                                   PyStr(row_data[c][2]), parent_dir) >>]
        ELSE <<>>])

\* the mutation "index every table from its file, cached or not"
TablePostingsFromFile(cache, info, table_name) ==
    IF BareIdentifier(table_name)
    THEN BFlatMap(_load_table_data(info.database_path, table_name)[2],
             LAMBDA row :
                 _add_to_search_index(info.package_name, info.parent_dir,
                     info.database_name, table_name,
                     RowData(_load_table_data(info.database_path, table_name)[1],
                             row)))
    ELSE <<>>

\* the <<word, posting>> pairs of one table: none unless the table is cached
TablePostings(cache, info, table_name) ==
    LET cached_table == CacheGet(cache, info.package_name, info.parent_dir,
                                 info.database_name, table_name)
    IN IF cached_table # <<>>
       THEN BFlatMap(cached_table[1].rows,
                LAMBDA row :
                    _add_to_search_index(info.package_name, info.parent_dir,
                        info.database_name, table_name,
                        RowData(cached_table[1].columns, row)))
       ELSE <<>>

\* all <<word, posting>> pairs in the order _build_search_index appends them
AllPostings(dbs, cache) ==
    LET infos == DbInfos(dbs)
    IN Flatten([i \in 1..Len(infos) |->
         Flatten([t \in 1..Len(infos[i].tables) |->
            TablePostings(cache, infos[i], infos[i].tables[t])])])

\* the connections _build_search_index leaves open: it calls
\* _get_table_columns for every table of every database
IndexLeftOpen(dbs) ==
    LET infos == DbInfos(dbs)
    IN SumSeq([i \in 1..Len(infos) |->
                  SumSeq([t \in 1..Len(infos[i].tables) |->
                             LeftOpen(infos[i].tables[t])])])

\* _build_search_index: word -> postings in insertion order
_build_search_index(dbs, cache) ==
    LET all == AllPostings(dbs, cache)
        words == {e[1] : e \in BSet(all)}
    IN [w \in words |->
          BFlatMap(all, LAMBDA e : IF e[1] = w THEN <<e[2]>> ELSE <<>>)]

(***************************************************************************)
(* Search Orchestrator: global_search, _traditional_search,                *)
(* _search_database                                                        *)
(***************************************************************************)
\* the WHERE clause of the LIKE query on one row's cell
LikeWhere(cell, search_pattern, case_sensitive) ==
    /\ cell # Null
    /\ SqlLike(IF case_sensitive THEN SqlText(cell) ELSE StrLower(SqlText(cell)),
               <<"%">> \o search_pattern \o <<"%">>)

\* row_data.get(column, "")
ColumnCell(columns, row, column) ==
    row[CHOOSE k \in 1..Len(columns) : columns[k] = column]

\* the body of the loop over columns, for one column
ColumnResults(info, table_name, table, column, search_pattern, case_sensitive, use_regex) ==
    LET result(row) ==
            SearchResult(info.package_name, info.database_name, table_name,
                         column, RowData(table.columns, row),
                         PyStr(ColumnCell(table.columns, row, column)),
                         info.parent_dir)
    IN IF use_regex
       THEN IF RegexValid(search_pattern)
            THEN BFlatMap(BTake(table.rows, REGEX_LIMIT),
                     LAMBDA row :
                         IF RegexSearch(search_pattern,
                                PyStr(ColumnCell(table.columns, row, column)),
                                ~case_sensitive)
                         THEN <<result(row)>> ELSE <<>>)
            ELSE <<>>
       ELSE IF SqlLiteralOk(search_pattern)
            THEN BFlatMap(
                     BTake(BFilter(table.rows,
                               LAMBDA row :
                                   LikeWhere(ColumnCell(table.columns, row, column),
                                             search_pattern, case_sensitive)),
                           LIKE_LIMIT),
                     LAMBDA row : <<result(row)>>)
            ELSE <<>>

\* the tables the loop over db_info.tables reaches: "PRAGMA table_info" of a
\* name that is no bare identifier raises sqlite3.Error outside the inner
\* try, which ends the loop
ReachedTables(tables) ==
    LET bad == {k \in 1..Len(tables) : ~BareIdentifier(tables[k])}
    IN IF bad = {} THEN tables
       ELSE SubSeq(tables, 1, (CHOOSE k \in bad : \A j \in bad : k <= j) - 1)

\* the tables one call of _search_database runs statements on, all on the
\* one connection it opens: those it reaches and the one that ends the loop
QueriedTables(tables) ==
    SubSeq(tables, 1, Min(Len(tables), Len(ReachedTables(tables)) + 1))

\* _search_database
_search_database(info, search_pattern, case_sensitive, use_regex) ==
    LET tables == ReachedTables(info.tables)
    IN Flatten([t \in 1..Len(tables) |->
         LET table == DictGet(FileTables(info.database_path), tables[t])
         IN Flatten([c \in 1..Len(table.columns) |->
              ColumnResults(info, tables[t], table, table.columns[c],
                            search_pattern, case_sensitive, use_regex)])])

\* _traditional_search
_traditional_search(search_pattern, case_sensitive, use_regex) ==
    LET infos == DbInfos(databases)
    IN Flatten([i \in 1..Len(infos) |->
         _search_database(infos[i], search_pattern, case_sensitive, use_regex)])

\* the deduplication key of global_search
Key(r) == <<r.package_name, r.database_name, r.table_name, r.column_name,
            r.match_value>>

\* global_search, the loop over search_words
IndexPass(search_pattern, case_sensitive) ==
    IF case_sensitive THEN <<>>
    ELSE LET search_words == StrSplit(search_pattern)
         IN Flatten([w \in 1..Len(search_words) |->
              IF search_words[w] \in DOMAIN search_index
              THEN BFilter(search_index[search_words[w]],
                       LAMBDA r : Contains(StrLower(r.match_value), search_pattern))
              ELSE <<>>])

\* "if len(results) < 100"
NeedsFallback(results) == BLen(results) < INDEX_ENOUGH

\* global_search, the merge of the fallback results
MergeFallback(results, traditional_results) ==
    LET existing_keys == {Key(r) : r \in BSet(results)}
    IN results \o BFilter(traditional_results,
                      LAMBDA r : Key(r) \notin existing_keys)

\* global_search
global_search(search_term, case_sensitive, use_regex) ==
    IF use_regex
    THEN _traditional_search(search_term, case_sensitive, use_regex)
    ELSE LET search_pattern == IF case_sensitive THEN search_term
                               ELSE StrLower(search_term)
             results == IndexPass(search_pattern, case_sensitive)
         IN IF NeedsFallback(results)
            THEN MergeFallback(results,
                     _traditional_search(search_pattern, case_sensitive, use_regex))
            ELSE results

\* the tables each connection of a global_search runs statements on: one
\* connection for each database when _traditional_search runs, none otherwise
SearchScopes(search_term, case_sensitive, use_regex) ==
    LET infos == DbInfos(databases)
        search_pattern == IF case_sensitive THEN search_term
                          ELSE StrLower(search_term)
    IN IF use_regex \/ NeedsFallback(IndexPass(search_pattern, case_sensitive))
       THEN [i \in 1..Len(infos) |-> QueriedTables(infos[i].tables)]
       ELSE <<>>

(***************************************************************************)
(* Catalog: get_table_data                                                 *)
(***************************************************************************)
\* self.databases has an entry for (package_name, parent_dir, db_name)
HasDb(package_name, parent_dir, db_name) ==
    /\ DictHas(databases, package_name)
    /\ DictHas(DictGet(databases, package_name), parent_dir)
    /\ DictHas(DictGet(DictGet(databases, package_name), parent_dir), db_name)

GetDb(package_name, parent_dir, db_name) ==
    DictGet(DictGet(DictGet(databases, package_name), parent_dir), db_name)

\* the read from the file: "PRAGMA table_info([t])", then
\* "SELECT * FROM [t] LIMIT ? OFFSET ?"
ReadPage(path, table_name, limit, offset) ==
    IF DictHas(FileTables(path), table_name)
    THEN << DictGet(FileTables(path), table_name).columns,
            BSlice(DictGet(FileTables(path), table_name).rows,
                   offset, offset + limit) >>
    ELSE << <<>>, <<>> >>

\* what a query attempt on the file meets: it runs, it fails with
\* sqlite3.OperationalError "database is locked", or it fails otherwise
Outcomes == {"ok", "locked", "error"}

\* the mutation "retry after every failure"
ShouldRetryAlways(outcome) == outcome # "ok"

\* 'if "database is locked" in str(e).lower()'
ShouldRetry(outcome) == outcome = "locked"

\* _retry_get_table_data: <<columns, rows>>
_retry_get_table_data(db_path, table_name, limit, offset, outcome) ==
    IF outcome = "ok" /\ DictHas(FileTables(db_path), table_name)
    THEN ReadPage(db_path, table_name, limit, offset)
    ELSE << <<>>, <<>> >>

\* get_table_data.  faults are the outcomes the first and the second query
\* attempt meet; attempts are those that were made, slept tells whether
\* time.sleep(0.5) ran, peak is the largest number of connections the call
\* held open at one moment (the retry runs inside the except clause, before
\* the finally clause closes the first connection)
get_table_data(package_name, parent_dir, db_name, table_name, limit, offset, faults) ==
    LET cached_table == CacheGet(cached_data, package_name, parent_dir,
                                 db_name, table_name)
        db_path == GetDb(package_name, parent_dir, db_name).database_path
        answer(data, attempts, slept, peak) ==
            [columns |-> data[1], rows |-> data[2], attempts |-> attempts,
             slept |-> slept, peak |-> peak]
    IN IF cached_table # <<>>
       THEN answer(<< cached_table[1].columns,
                      BSlice(cached_table[1].rows, offset, offset + limit) >>,
                   <<>>, FALSE, 0)
       ELSE IF ~HasDb(package_name, parent_dir, db_name)
            THEN answer(<< <<>>, <<>> >>, <<>>, FALSE, 0)
       ELSE IF faults[1] = "ok"
            THEN answer(ReadPage(db_path, table_name, limit, offset),
                        <<faults[1]>>, FALSE, 1)
       ELSE IF ShouldRetry(faults[1])
            THEN answer(_retry_get_table_data(db_path, table_name, limit,
                                              offset, faults[2]),
                        <<faults[1], faults[2]>>, TRUE, 2)
       ELSE answer(<< <<>>, <<>> >>, <<faults[1]>>, FALSE, 1)

\* the mutation "a page read from the file is kept in the cache"
StorePage(cache, key, data) ==
    IF data.attempts = <<>> THEN cache
    ELSE LET package_cache == DictGet(cache, key[1])
             dir_cache == DictGet(package_cache, key[2])
             table_cache == DictGet(dir_cache, key[3])
             entry == CachedTableData(data.columns, data.rows, BLen(data.rows))
         IN DictPut(cache, key[1],
              DictPut(package_cache, key[2],
                DictPut(dir_cache, key[3],
                  DictPut(table_cache, key[4], entry))))

\* self.cached_data after get_table_data: the method reads it with .get and
\* assigns nothing to it, also when it had to read the page from the file
LeaveCache(cache, key, data) == cache

\* TableInfo
TableInfo(table_name, columns, row_count) ==
    [table_name |-> table_name, columns |-> columns, row_count |-> row_count]

\* get_table_info: <<the TableInfo>>, or <<>> for None when the database is
\* not in the catalog or a statement fails with sqlite3.Error; the PRAGMA
\* of a table the file does not have gives no row and the COUNT then fails
get_table_info(package_name, parent_dir, db_name, table_name) ==
    LET db_path == GetDb(package_name, parent_dir, db_name).database_path
    IN IF ~HasDb(package_name, parent_dir, db_name) THEN <<>>
       ELSE IF BareIdentifier(table_name)
               /\ DictHas(FileTables(db_path), table_name)
            THEN << TableInfo(table_name,
                              DictGet(FileTables(db_path), table_name).columns,
                              BLen(DictGet(FileTables(db_path), table_name).rows)) >>
       ELSE <<>>

\* get_database_statistics: dir_stats of one logical directory
DirStats(dir_dbs) ==
    [databases |-> Len(dir_dbs),
     tables |-> SumSeq([k \in 1..Len(dir_dbs) |-> Len(dir_dbs[k][2].tables)]),
     database_details |->
        [k \in 1..Len(dir_dbs) |->
            << dir_dbs[k][1], [tables |-> Len(dir_dbs[k][2].tables),
                               table_names |-> dir_dbs[k][2].tables] >>]]

\* get_database_statistics: package_stats of one package
PackageStats(package_dbs) ==
    [directories |-> Len(package_dbs),
     databases |-> SumSeq([k \in 1..Len(package_dbs) |->
                              DirStats(package_dbs[k][2]).databases]),
     tables |-> SumSeq([k \in 1..Len(package_dbs) |->
                           DirStats(package_dbs[k][2]).tables]),
     directory_details |->
        [k \in 1..Len(package_dbs) |->
            << package_dbs[k][1], DirStats(package_dbs[k][2]) >>]]

\* get_database_statistics
get_database_statistics ==
    [total_packages |-> Len(databases),
     total_databases |-> SumSeq([k \in 1..Len(databases) |->
                                    PackageStats(databases[k][2]).databases]),
     total_tables |-> SumSeq([k \in 1..Len(databases) |->
                                 PackageStats(databases[k][2]).tables]),
     package_details |->
        [k \in 1..Len(databases) |->
            << databases[k][1], PackageStats(databases[k][2]) >>]]

(***************************************************************************)
(* Signature Classifier: FILE_SIGNATURES, detect_file_type                 *)
(* A bytes value is a sequence of numbers 0 .. 255.                        *)
(***************************************************************************)
\* the dict FILE_SIGNATURES in the order of its items
FILE_SIGNATURES == <<
    [signature |-> <<255, 216, 255>>, file_type |-> ".jpg"],
    [signature |-> <<137, 80, 78, 71, 13, 10, 26, 10>>, file_type |-> ".png"],
    [signature |-> <<71, 73, 70, 56, 57, 97>>, file_type |-> ".gif"],
    [signature |-> <<71, 73, 70, 56, 55, 97>>, file_type |-> ".gif"],
    [signature |-> <<66, 77>>, file_type |-> ".bmp"],
    [signature |-> <<80, 75, 3, 4>>, file_type |-> ".zip"],
    [signature |-> <<31, 139, 8>>, file_type |-> ".gz"],
    [signature |-> <<66, 90, 104>>, file_type |-> ".bz2"],
    [signature |-> <<253, 55, 122, 88, 90, 0>>, file_type |-> ".xz"],
    [signature |-> <<40, 181, 47, 253>>, file_type |-> ".zstd"],
    [signature |-> <<117, 115, 116, 97, 114, 0, 48, 48>>, file_type |-> ".tar"],
    [signature |-> <<55, 122, 188, 175, 39, 28>>, file_type |-> ".7z"],
    [signature |-> <<82, 97, 114, 33, 26, 7>>, file_type |-> ".rar"],
    [signature |-> <<120, 156>>, file_type |-> ".zlib"],
    [signature |-> <<73, 68, 51>>, file_type |-> ".mp3"],
    [signature |-> <<255, 251>>, file_type |-> ".mp3"],
    [signature |-> <<255, 243>>, file_type |-> ".mp3"],
    [signature |-> <<255, 242>>, file_type |-> ".mp3"],
    [signature |-> <<102, 76, 97, 67>>, file_type |-> ".flac"],
    [signature |-> <<79, 103, 103, 83>>, file_type |-> ".ogg"],
    [signature |-> <<0, 0, 0, 20, 102, 116, 121, 112>>, file_type |-> ".mp4"],
    [signature |-> <<0, 0, 1, 186>>, file_type |-> ".mpeg"],
    [signature |-> <<0, 0, 1, 179>>, file_type |-> ".mpeg"],
    [signature |-> <<26, 69, 223, 163>>, file_type |-> ".mkv"],
    [signature |-> <<102, 116, 121, 112>>, file_type |-> ".mp4"],
    [signature |-> <<51, 71, 80, 50>>, file_type |-> ".3gp"],
    [signature |-> <<37, 80, 68, 70>>, file_type |-> ".pdf"],
    [signature |-> <<60, 63, 120, 109, 108>>, file_type |-> ".xml"],
    [signature |-> <<60, 104, 116, 109, 108>>, file_type |-> ".html"],
    [signature |-> <<239, 187, 191>>, file_type |-> ".txt"],
    [signature |-> <<37, 33>>, file_type |-> ".ps"],
    [signature |-> <<208, 207, 17, 224, 161, 177, 26, 225>>, file_type |-> ".doc"],
    [signature |-> <<0, 1, 0, 0>>, file_type |-> ".ttf"],
    [signature |-> <<79, 84, 84, 79>>, file_type |-> ".otf"],
    [signature |-> <<127, 69, 76, 70>>, file_type |-> ".elf"],
    [signature |-> <<77, 90>>, file_type |-> ".exe"],
    [signature |-> <<67, 87, 83>>, file_type |-> ".swf"],
    [signature |-> <<83, 81, 76, 105, 116, 101, 32, 102, 111, 114, 109, 97, 116, 32, 51, 0>>, file_type |-> ".db"],
    [signature |-> <<56, 181, 47, 253>>, file_type |-> ".qcow"],
    [signature |-> <<82, 73, 70, 70>>, file_type |-> ".wav"] >>

\* the byte strings detect_file_type compares with
B_ftyp == <<102, 116, 121, 112>>
B_RIFF == <<82, 73, 70, 70>>
B_WAVE == <<87, 65, 86, 69>>
B_AVI  == <<65, 86, 73, 32>>
B_WEBP == <<87, 69, 66, 80>>
B_mp41 == <<109, 112, 52, 49>>
B_mp42 == <<109, 112, 52, 50>>
B_isom == <<105, 115, 111, 109>>
B_M4V  == <<77, 52, 86, 32>>
B_M4A  == <<77, 52, 65, 32>>

\* the return value None
None == "None"

\* data.startswith(prefix)
StartsWith(data, prefix) ==
    Len(data) >= Len(prefix) /\ SubSeq(data, 1, Len(prefix)) = prefix

\* data[a:b]
Slice(data, a, b) == SubSeq(data, a + 1, Min(b, Len(data)))

\* the mutation "len(data) < 3"
TooShortByOne(data) == Len(data) < 3

\* "if not data or len(data) < 4"
TooShort(data) == Len(data) < 4

\* detect_file_type
detect_file_type(data) ==
    LET hits == { k \in 1..Len(FILE_SIGNATURES) :
                      StartsWith(data, FILE_SIGNATURES[k].signature) }
        first == CHOOSE k \in hits : \A j \in hits : k <= j
    IN IF TooShort(data) THEN None
       ELSE IF hits # {} THEN FILE_SIGNATURES[first].file_type
       ELSE IF /\ Len(data) >= 12
               /\ Slice(data, 4, 8) = B_ftyp
               /\ Slice(data, 8, 12) \in {B_mp41, B_mp42, B_isom, B_M4V, B_M4A}
            THEN ".mp4"
       ELSE IF /\ Len(data) >= 12
               /\ Slice(data, 4, 8) = B_ftyp
               /\ Slice(data, 8, 12) = B_M4V
            THEN ".m4v"
       ELSE IF StartsWith(data, B_RIFF) /\ Len(data) >= 12
            THEN IF Slice(data, 8, 12) = B_WAVE THEN ".wav"
                 ELSE IF Slice(data, 8, 12) = B_AVI THEN ".avi"
                 ELSE IF Slice(data, 8, 12) = B_WEBP THEN ".webp"
                 ELSE None
       ELSE None

(***************************************************************************)
(* Attachment export: export_all_attachments                               *)
(***************************************************************************)
\* output_dir
OutputDir == <<".", "/", "o", "u", "t", "p", "u", "t">>

\* os.path.join(a, b) for a relative b
PathJoin(a, b) == a \o <<"/">> \o b

\* "isinstance(value, bytes) and len(value) > 150"
IsAttachment(value) == value.t = "blob" /\ Len(BlobBytes(value)) > ATTACHMENT_MIN

\* "if file_type and file_type != '.unknown'"
Exportable(file_type) == file_type # None /\ file_type # ".unknown"

\* the cells of one table that are written out, in the order of the loops
\* over rows and over enumerate(data_row); the rowid of a row is its
\* position in the table
TableAttachments(info, table_name) ==
    LET table == DictGet(FileTables(info.database_path), table_name)
    IN Flatten([r \in 1..BLen(table.rows) |->
           LET data_row == BAt(table.rows, r)
           IN Flatten([c \in 1..Len(data_row) |->
                  IF /\ IsAttachment(data_row[c])
                     /\ Exportable(detect_file_type(BlobBytes(data_row[c])))
                  THEN << [package |-> info.package_name,
                           database |-> info.database_name,
                           table |-> table_name,
                           column |-> table.columns[c],
                           row |-> r,
                           file_type |-> detect_file_type(BlobBytes(data_row[c])),
                           value |-> data_row[c]] >>
                  ELSE <<>>])])

\* the loop over db_info.tables: a table whose PRAGMA table_info or SELECT
\* fails is passed over
DatabaseAttachments(info) ==
    Flatten([t \in 1..Len(info.tables) |->
        IF BareIdentifier(info.tables[t])
        THEN TableAttachments(info, info.tables[t])
        ELSE <<>>])

\* by type: ./output/<type>/<db>_<table>_<column>_<rowid><type>
TypePath(a) ==
    PathJoin(PathJoin(OutputDir, Tail(Str(a.file_type))),
             Str(a.database) \o <<"_">> \o Str(a.table) \o <<"_">>
                 \o Str(a.column) \o <<"_">> \o IntStr(a.row) \o Str(a.file_type))

\* counter_key
CounterKey(a) == Str(a.package) \o <<"_">> \o Str(a.database)

\* by package: ./output/<package>/<db>_<counter><type>
PackagePath(a, counter) ==
    PathJoin(PathJoin(OutputDir, Str(a.package)),
             Str(a.database) \o <<"_">> \o IntStr(counter) \o Str(a.file_type))

\* the writes of the attachments in their order:
\* [exported_files, file_counters, output], output being path -> bytes
RECURSIVE WriteAttachments(_, _, _)
WriteAttachments(attachments, export_by_package, acc) ==
    IF attachments = <<>> THEN acc
    ELSE LET a == Head(attachments)
             counter == (IF DictHas(acc.file_counters, CounterKey(a))
                         THEN DictGet(acc.file_counters, CounterKey(a)) ELSE 0) + 1
             filepath == IF export_by_package THEN PackagePath(a, counter)
                         ELSE TypePath(a)
         IN WriteAttachments(Tail(attachments), export_by_package,
               [exported_files |->
                    Append(acc.exported_files,
                           [package |-> a.package, database |-> a.database,
                            table |-> a.table, column |-> a.column,
                            row |-> a.row, file_type |-> a.file_type,
                            file_path |-> filepath,
                            file_size |-> Len(BlobBytes(a.value))]),
                file_counters |->
                    IF export_by_package
                    THEN DictPut(acc.file_counters, CounterKey(a), counter)
                    ELSE acc.file_counters,
                output |-> DictPut(acc.output, filepath, a.value)])

\* the mutation "the destination root is kept as it is"
KeptRoot(existing) == existing

\* "if os.path.exists(output_dir): shutil.rmtree(output_dir)", os.makedirs:
\* the files under ./output when the loops begin
RecreatedRoot(existing) == <<>>

\* the databases the loop reaches: sqlite3.connect(db_path) stands outside
\* the try of the tables, so the first database that cannot be opened ends
\* the loops
OpenedDbs(infos, unopenable) ==
    LET bad == {k \in 1..Len(infos) : infos[k].database_path \in unopenable}
    IN IF bad = {} THEN infos
       ELSE SubSeq(infos, 1, (CHOOSE k \in bad : \A j \in bad : k <= j) - 1)

\* export_all_attachments(export_by_package).  unopenable are the database files on which
\* sqlite3.connect raises, existing the files under ./output beforehand.
\* report is <<the report>>, or <<>> for None; output the files under
\* ./output afterwards; scopes the tables each connection ran queries on
export_all_attachments(export_by_package, unopenable, existing) ==
    LET infos == DbInfos(databases)
        opened == OpenedDbs(infos, unopenable)
        attachments == Flatten([k \in 1..Len(opened) |-> DatabaseAttachments(opened[k])])
        done == WriteAttachments(attachments, export_by_package,
                    [exported_files |-> <<>>, file_counters |-> <<>>,
                     output |-> RecreatedRoot(existing)])
    IN [report |-> IF Len(opened) < Len(infos) THEN <<>>
                   ELSE << [total_files |-> Len(done.exported_files),
                            exported_files |-> done.exported_files,
                            export_mode |-> IF export_by_package THEN "by_package"
                                            ELSE "by_type"] >>,
        output |-> done.output,
        scopes |-> [k \in 1..Len(opened) |-> opened[k].tables]]

(***************************************************************************)
(* The search dialog and its thread (search_dialog.py)                     *)
(***************************************************************************)
HexChars == {"0", "1", "2", "3", "4", "5", "6", "7", "8", "9",
             "a", "b", "c", "d", "e", "f", "A", "B", "C", "D", "E", "F"}

\* re.match(r'^[0-9a-fA-F]+$', search_term)
IsHex(s) == s # <<>> /\ \A i \in 1..Len(s) : s[i] \in HexChars

\* str.strip()
RECURSIVE StrStrip(_)
StrStrip(s) ==
    IF s = <<>> THEN s
    ELSE IF Head(s) = " " THEN StrStrip(Tail(s))
    ELSE IF s[Len(s)] = " " THEN StrStrip(SubSeq(s, 1, Len(s) - 1))
    ELSE s

\* start_search: the checks that return before a thread is created
StartRejected(search_term, search_bytes) ==
    \/ search_term = <<>>
    \/ search_bytes /\ (~IsHex(search_term) \/ Len(search_term) % 2 # 0)

\* a call with the positional arguments args of a method that takes at most
\* GLOBAL_SEARCH_PARAMS of them raises TypeError
CallGlobalSearch(args) ==
    IF Len(args) > GLOBAL_SEARCH_PARAMS
    THEN [raised |-> TRUE, value |-> <<>>]
    ELSE [raised |-> FALSE, value |-> global_search(args[1], args[2], args[3])]

(***************************************************************************)
(* Inputs of the operations                                                *)
(***************************************************************************)
SearchTerms == { S_ab, <<"A", "B">>, <<"b">>, S_ab_cd, <<"'">>, <<"_">>,
                 S_wang, S_xab }

RegexPatterns == { S_ab, <<"a", ".", "*", "b">>, <<"(">>, <<"N", ".", "*">> }

DialogTerms == { S_ab, <<"6", "1", "6", "2">>, <<"6", "1", "6">>, <<" ">> }

\* the tables get_table_data is asked for
Targets == { <<"p1", "databases", "a.db", "logs">>,
             <<"p1", "databases", "a.db", "my table">>,
             <<"p2", "databases", "contacts.db", "people">> }

Limits == {1, DEFAULT_LIMIT}

\* what the first and the second query attempt of get_table_data meet; the
\* second is made only after a lock
FaultSeqs == { f \in Outcomes \X Outcomes : f[1] # "locked" => f[2] = "ok" }

(***************************************************************************)
(* Specification                                                           *)
(***************************************************************************)
Init ==
    /\ disk \in Disks
    /\ databases = <<>>
    /\ cached_data = <<>>
    /\ search_index = <<>>
    /\ ret = [op |-> "init"]
    /\ thread = [state |-> "none"]
    /\ connections = 0
    /\ output = <<>>

\* load_databases(packages)
Load(packages) ==
    LET loaded == LoadPackages(packages, << <<>>, <<>>, 0 >>)
        left_open == loaded[3] + IndexLeftOpen(loaded[1])
    IN /\ connections + left_open <= MaxConnections
       /\ databases' = loaded[1]
       /\ cached_data' = loaded[2]
       /\ search_index' = _build_search_index(loaded[1], loaded[2])
       /\ connections' = connections + left_open
       /\ ret' = [op |-> "load_databases", packages |-> packages,
                  scopes |-> LoadScopes(loaded[1])]
       /\ UNCHANGED <<disk, thread, output>>

\* the interpreter's garbage collector finalizes the connections that were
\* dropped without close(), at a moment of its own choosing
CollectGarbage ==
    /\ connections > 0
    /\ connections' = 0
    /\ UNCHANGED <<disk, databases, cached_data, search_index, ret, thread, output>>

\* global_search(search_term, case_sensitive, use_regex)
Search(search_term, case_sensitive, use_regex) ==
    /\ ret' = [op |-> "global_search", search_term |-> search_term,
               case_sensitive |-> case_sensitive, use_regex |-> use_regex,
               results |-> global_search(search_term, case_sensitive, use_regex),
               scopes |-> SearchScopes(search_term, case_sensitive, use_regex)]
    /\ UNCHANGED <<disk, databases, cached_data, search_index, thread, connections,
                    output>>

\* get_table_data(package_name, parent_dir, db_name, table_name, limit, offset)
GetTableData(key, limit, offset, faults) ==
    LET table_name == key[4]
        data == get_table_data(key[1], key[2], key[3], table_name, limit,
                               offset, faults)
    IN /\ ret' = [op |-> "get_table_data", package_name |-> key[1],
                  parent_dir |-> key[2], db_name |-> key[3],
                  table_name |-> table_name, limit |-> limit,
                  offset |-> offset, columns |-> data.columns,
                  rows |-> data.rows, attempts |-> data.attempts,
                  slept |-> data.slept, peak |-> data.peak]
       /\ cached_data' = LeaveCache(cached_data, key, data)
       /\ UNCHANGED <<disk, databases, search_index, thread, connections, output>>

\* get_table_info(package_name, parent_dir, db_name, table_name)
GetTableInfo(key) ==
    /\ ret' = [op |-> "get_table_info", package_name |-> key[1],
               parent_dir |-> key[2], db_name |-> key[3], table_name |-> key[4],
               info |-> get_table_info(key[1], key[2], key[3], key[4])]
    /\ UNCHANGED <<disk, databases, cached_data, search_index, thread, connections,
                    output>>

\* get_database_statistics()
GetDatabaseStatistics ==
    /\ ret' = [op |-> "get_database_statistics", stats |-> get_database_statistics]
    /\ UNCHANGED <<disk, databases, cached_data, search_index, thread, connections,
                    output>>

\* SearchDialog.start_search: validates the input and starts the thread
StartSearch(text, case_sensitive, use_regex, search_bytes) ==
    /\ thread.state # "running"
    /\ thread' = IF StartRejected(StrStrip(text), search_bytes)
                 THEN [state |-> "rejected"]
                 ELSE [state |-> "running", search_term |-> StrStrip(text),
                       case_sensitive |-> case_sensitive,
                       use_regex |-> use_regex, search_bytes |-> search_bytes]
    /\ UNCHANGED <<disk, databases, cached_data, search_index, ret, connections,
                    output>>

\* SearchThread.run
SearchThreadRun ==
    /\ thread.state = "running"
    /\ LET call == CallGlobalSearch(<<thread.search_term, thread.case_sensitive,
                                      thread.use_regex, thread.search_bytes>>)
       IN thread' = [state |-> "finished",
                     search_term |-> thread.search_term,
                     case_sensitive |-> thread.case_sensitive,
                     use_regex |-> thread.use_regex,
                     search_bytes |-> thread.search_bytes,
                     signal |-> IF call.raised THEN "search_error"
                                ELSE "search_completed",
                     results |-> call.value]
    /\ UNCHANGED <<disk, databases, cached_data, search_index, ret, connections,
                    output>>

\* the calls of the manager's interface
Next ==
    \/ \E packages \in PackageLists : Load(packages)
    \/ \E t \in SearchTerms, cs \in BOOLEAN : Search(t, cs, FALSE)
    \/ \E t \in RegexPatterns, cs \in BOOLEAN : Search(t, cs, TRUE)
    \/ \E key \in Targets, limit \in Limits, offset \in 0..MaxOffset :
          \E faults \in FaultSeqs :
              GetTableData(key, limit, offset, faults)
    \/ \E key \in Targets : GetTableInfo(key)
    \/ GetDatabaseStatistics
    \/ CollectGarbage

Spec == Init /\ [][Next]_vars

\* the searches started from the dialog
NextDialog ==
    \/ \E packages \in PackageLists : Load(packages)
    \/ \E t \in DialogTerms, cs \in BOOLEAN, re \in BOOLEAN :
          StartSearch(t, cs, re, FALSE)
    \/ \E t \in DialogTerms : StartSearch(t, FALSE, FALSE, TRUE)
    \/ SearchThreadRun
    \/ CollectGarbage

SpecDialog == Init /\ [][NextDialog]_vars

\* loads of one package list after the other
InitReload ==
    /\ disk \in ReloadDisks
    /\ databases = <<>>
    /\ cached_data = <<>>
    /\ search_index = <<>>
    /\ ret = [op |-> "init"]
    /\ thread = [state |-> "none"]
    /\ connections = 0
    /\ output = <<>>

NextReload ==
    \/ \E packages \in ReloadLists : Load(packages)
    \/ CollectGarbage

SpecReload == InitReload /\ [][NextReload]_vars

(***************************************************************************)
(* The classifier applied to byte buffers                                  *)
(***************************************************************************)
Zeros(n) == [i \in 1..n |-> 0]

\* paddings: short ones, and one that makes every buffer at least 12 bytes
Pads == { Zeros(n) : n \in 0..MaxPad } \cup { Zeros(12) }

\* every signature of the table followed by a padding
SignatureBuffers ==
    { FILE_SIGNATURES[k].signature \o pad : k \in 1..Len(FILE_SIGNATURES), pad \in Pads }

\* the leading bytes of every signature, up to three
ShortBuffers ==
    { SubSeq(FILE_SIGNATURES[k].signature, 1, Min(n, Len(FILE_SIGNATURES[k].signature))) :
          k \in 1..Len(FILE_SIGNATURES), n \in 0..3 }

\* RIFF containers: "RIFF", a size, a format tag
RiffBuffers ==
    { B_RIFF \o <<36, 0, 0, 0>> \o tag : tag \in {B_WAVE, B_AVI, B_WEBP, Zeros(4), <<>>} }

\* ISO media files: a box size, "ftyp", a brand
FtypBuffers ==
    { <<0, 0, 0, size>> \o B_ftyp \o brand :
          size \in {20, 24, 32},
          brand \in {B_mp41, B_mp42, B_isom, B_M4V, B_M4A, <<113, 116, 32, 32>>, <<>>} }

Buffers == SignatureBuffers \cup ShortBuffers \cup RiffBuffers \cup FtypBuffers

Classify(data) ==
    /\ ret' = [op |-> "detect_file_type", data |-> data, result |-> detect_file_type(data)]
    /\ UNCHANGED <<disk, databases, cached_data, search_index, thread, connections,
                    output>>

InitClassify ==
    /\ disk = <<>>
    /\ databases = <<>>
    /\ cached_data = <<>>
    /\ search_index = <<>>
    /\ ret = [op |-> "init"]
    /\ thread = [state |-> "none"]
    /\ connections = 0
    /\ output = <<>>

NextClassify == \E data \in Buffers : Classify(data)

SpecClassify == InitClassify /\ [][NextClassify]_vars

(***************************************************************************)
(* The export after a load                                                 *)
(***************************************************************************)
ExportAllAttachments(export_by_package, unopenable) ==
    /\ LET done == export_all_attachments(export_by_package, unopenable, output)
       IN /\ ret' = [op |-> "export_all_attachments",
                     export_by_package |-> export_by_package,
                     unopenable |-> unopenable,
                     had_files |-> output # <<>>,
                     report |-> done.report,
                     scopes |-> done.scopes]
          /\ output' = done.output
    /\ UNCHANGED <<disk, databases, cached_data, search_index, thread, connections>>

InitExport ==
    /\ disk \in ExportDisks
    /\ databases = <<>>
    /\ cached_data = <<>>
    /\ search_index = <<>>
    /\ ret = [op |-> "init"]
    /\ thread = [state |-> "none"]
    /\ connections = 0
    /\ output = <<>>

NextExport ==
    \/ \E packages \in ExportLists : Load(packages)
    \/ \E export_by_package \in BOOLEAN, unopenable \in Unopenable :
          ExportAllAttachments(export_by_package, unopenable)
    \/ CollectGarbage

SpecExport == InitExport /\ [][NextExport]_vars

(***************************************************************************)
(* What the properties speak about                                         *)
(***************************************************************************)
\* the cataloged tables: <<DatabaseInfo, table name>>
Cataloged ==
    { x \in Range(DbInfos(databases)) \X Range(NameOrder) :
          x[2] \in Range(x[1].tables) }

\* an independent full scan of a table: its rows as the file holds them
FullScan(info, t) == DictGet(FileTables(info.database_path), t).rows

\* the table's row count at load time
RowCount(info, t) == BLen(FullScan(info, t))

\* the table has a TableSnapshot
HasSnapshot(info, t) ==
    CacheGet(cached_data, info.package_name, info.parent_dir,
             info.database_name, t) # <<>>

\* the row-count query of load_databases ran without error
CountSucceeded(info, t) == BareIdentifier(t)

PlainSearch == ret.op = "global_search" /\ ~ret.use_regex

\* the cells of a list of rows: <<column name, cell>>
CellsOf(columns, rows) ==
    { <<columns[c], row[c]>> : row \in BSet(rows), c \in 1..Len(columns) }

\* the text s contains the term of the last search, under its case mode
HoldsTerm(s) ==
    IF ret.case_sensitive THEN Contains(s, ret.search_term)
    ELSE Contains(StrLower(s), StrLower(ret.search_term))

\* the results of the index pass of the last search
IndexResults ==
    IndexPass(IF ret.case_sensitive THEN ret.search_term
              ELSE StrLower(ret.search_term), ret.case_sensitive)

\* the last search returned a result with the key of cell <<column, cell>>
\* of table x
Returned(x, cell) ==
    \E r \in BSet(ret.results) :
        Key(r) = <<x[1].package_name, x[1].database_name, x[2], cell[1],
                   PyStr(cell[2])>>

C2_PageEqualsFullScan ==
    \A x \in Cataloged :
        ( /\ ret.op = "get_table_data"
          /\ \A k \in 1..Len(ret.attempts) : ret.attempts[k] = "ok"
          /\ <<ret.package_name, ret.parent_dir, ret.db_name, ret.table_name>>
               = <<x[1].package_name, x[1].parent_dir, x[1].database_name, x[2]>>
          /\ RowCount(x[1], x[2]) <= 1000
          /\ ret.offset = 0
          /\ ret.limit >= RowCount(x[1], x[2]) )
        => BNorm(ret.rows) = BNorm(FullScan(x[1], x[2]))

(***************************************************************************)
(* C3: the result of a plain-mode global_search holds no two results with  *)
(* the same (package, database, table, column, match_value).               *)
(***************************************************************************)
C3_NoDuplicateKeys ==
    PlainSearch =>
        BLen(ret.results) = Cardinality({Key(r) : r \in BSet(ret.results)})

(***************************************************************************)
(* C4: for any substring S of a text cell of a cached table, the plain     *)
(* case-insensitive search for S returns a result at that cell's package,  *)
(* database, table and column whose match_value contains S without regard  *)
(* to case, however many other cells match.                                *)
(***************************************************************************)
C4_CachedSubstringFound ==
    (PlainSearch /\ ~ret.case_sensitive) =>
        \A x \in { y \in Cataloged : HasSnapshot(y[1], y[2]) } :
            LET snap == CacheGet(cached_data, x[1].package_name, x[1].parent_dir,
                                 x[1].database_name, x[2])[1]
            IN \A cell \in CellsOf(snap.columns, snap.rows) :
                  (cell[2].t = "text" /\ Contains(cell[2].s, ret.search_term))
                  => \E r \in BSet(ret.results) :
                        /\ r.package_name = x[1].package_name
                        /\ r.database_name = x[1].database_name
                        /\ r.table_name = x[2]
                        /\ r.column_name = cell[1]
                        /\ Contains(StrLower(r.match_value),
                                    StrLower(ret.search_term))

(***************************************************************************)
(* C5: for every table of more than 1000 rows, a plain-mode search for a   *)
(* term that one of its cells contains returns a result for that cell,     *)
(* whatever the index pass produced and wherever the row is in the table.  *)
(***************************************************************************)
C5_UncachedFound ==
    PlainSearch =>
        \A x \in { y \in Cataloged : RowCount(y[1], y[2]) > 1000 } :
            \A cell \in CellsOf(DictGet(FileTables(x[1].database_path), x[2]).columns,
                                FullScan(x[1], x[2])) :
                (cell[2] # Null /\ HoldsTerm(PyStr(cell[2]))) => Returned(x, cell)

(***************************************************************************)
(* C6: in plain mode, whenever the index pass yields fewer than 100        *)
(* results, the result is complete: every cell of every cataloged table    *)
(* whose stringified value contains the term has its entry in the result.  *)
(***************************************************************************)
C6_CompleteWhenSparse ==
    (PlainSearch /\ BLen(IndexResults) < 100) =>
        \A x \in Cataloged :
            \A cell \in CellsOf(DictGet(FileTables(x[1].database_path), x[2]).columns,
                                FullScan(x[1], x[2])) :
                (cell[2] # Null /\ HoldsTerm(PyStr(cell[2]))) => Returned(x, cell)

(***************************************************************************)
(* C7: every result of a plain-mode search has a match_value that holds    *)
(* the term as a literal substring, under the case mode of the search.     *)
(***************************************************************************)
C7_MatchContainsTerm ==
    PlainSearch => \A r \in BSet(ret.results) : HoldsTerm(r.match_value)

\* the table of the disk behind a cataloged table x
DiskTable(x) == DictGet(FileTables(x[1].database_path), x[2])

\* the occurrences <<block, row of the block, column>> of the cells of
\* table x whose stringified value holds the term of the last search
Matches(x) ==
    { ref \in UNION { { <<k, m, c>> : m \in 1..Len(DiskTable(x).rows[k].items),
                                      c \in 1..Len(DiskTable(x).columns) } :
                      k \in 1..Len(DiskTable(x).rows) } :
          LET cell == DiskTable(x).rows[ref[1]].items[ref[2]][ref[3]]
          IN cell # Null /\ HoldsTerm(PyStr(cell)) }

\* occurrence ref is the only cell of the catalog that holds the term, and
\* its row is in the snapshot of table x
SoleCachedMatch(x, ref) ==
    /\ Matches(x) = {ref}
    /\ DiskTable(x).rows[ref[1]].n = 1
    /\ \A y \in Cataloged \ {x} : Matches(y) = {}
    /\ HasSnapshot(x[1], x[2])
    /\ DiskTable(x).rows[ref[1]].items[ref[2]]
         \in BSet(CacheGet(cached_data, x[1].package_name, x[1].parent_dir,
                           x[1].database_name, x[2])[1].rows)

(***************************************************************************)
(* C8: when exactly one cell of the whole catalog contains the term        *)
(* without regard to case and that cell is in a cached table, plain        *)
(* case-insensitive search returns exactly one result, which carries the   *)
(* cell's table name, column name and original-case value.                 *)
(***************************************************************************)
C8_SoleMatchOneResult ==
    (PlainSearch /\ ~ret.case_sensitive) =>
        \A x \in Cataloged : \A ref \in Matches(x) :
            SoleCachedMatch(x, ref) =>
                /\ BLen(ret.results) = 1
                /\ \A r \in BSet(ret.results) :
                      /\ r.table_name = x[2]
                      /\ r.column_name = DiskTable(x).columns[ref[3]]
                      /\ r.match_value =
                           PyStr(DiskTable(x).rows[ref[1]].items[ref[2]][ref[3]])

\* the position of v in the sequence s
IndexOf(s, v) == CHOOSE i \in 1..Len(s) : s[i] = v

\* the place of a result in the traversal of the catalog:
\* <<database, table, column>>, databases counted through packages and
\* directories in their order
Place(r) ==
    LET infos == DbInfos(databases)
        d == CHOOSE i \in 1..Len(infos) :
                 /\ infos[i].package_name = r.package_name
                 /\ infos[i].parent_dir = r.parent_dir
                 /\ infos[i].database_name = r.database_name
    IN << d, IndexOf(infos[d].tables, r.table_name),
          IndexOf(DictKeys(r.row_data), r.column_name) >>

\* lexicographic order of places
PlaceLeq(a, b) ==
    \/ a[1] < b[1]
    \/ a[1] = b[1] /\ a[2] < b[2]
    \/ a[1] = b[1] /\ a[2] = b[2] /\ a[3] <= b[3]

\* the results rs are in traversal order
InTraversalOrder(rs) ==
    \A k \in 1..Len(rs) :
        /\ \A m \in 1..(Len(rs[k].items) - 1) :
              PlaceLeq(Place(rs[k].items[m]), Place(rs[k].items[m + 1]))
        /\ rs[k].n > 1 =>
              PlaceLeq(Place(rs[k].items[Len(rs[k].items)]), Place(rs[k].items[1]))
        /\ k < Len(rs) =>
              PlaceLeq(Place(rs[k].items[Len(rs[k].items)]),
                       Place(rs[k + 1].items[1]))

(***************************************************************************)
(* C9: a plain-mode result is the index-derived results followed by the    *)
(* fallback-derived additions, each of the two groups in catalog traversal *)
(* order (package, directory, database, table, column), also for a term of *)
(* several words; the whole result of a regex search is in that order.     *)
(***************************************************************************)
C9_TraversalOrder ==
    ret.op = "global_search" =>
        IF ret.use_regex THEN InTraversalOrder(ret.results)
        ELSE /\ BNorm(BTake(ret.results, BLen(IndexResults))) = BNorm(IndexResults)
             /\ InTraversalOrder(BTake(ret.results, BLen(IndexResults)))
             /\ InTraversalOrder(BDrop(ret.results, BLen(IndexResults)))

\* the cell a result was matched on
MatchedCell(r) == DictGet(r.row_data, r.column_name)

(***************************************************************************)
(* C10: a search started in byte-pattern mode with a valid even-length hex *)
(* term completes with a result sequence, and every result's matched cell  *)
(* is a binary value; no text cell is returned.                            *)
(***************************************************************************)
C10_BytesSearchCompletes ==
    (thread.state = "finished" /\ thread.search_bytes) =>
        /\ thread.signal = "search_completed"
        /\ \A r \in BSet(thread.results) : MatchedCell(r).t = "blob"

\* what global_search hands to its caller when a valid pattern matches no
\* cell: the empty list.  The list is the only output of global_search.
NoMatches == <<>>

(***************************************************************************)
(* C11: a regex-mode search with an invalid pattern returns normally and   *)
(* reports the invalid pattern to its caller: what the caller receives     *)
(* differs from what it receives for a valid pattern without matches.      *)
(***************************************************************************)
C11_InvalidPatternReported ==
    (ret.op = "global_search" /\ ret.use_regex /\ ~RegexValid(ret.search_term))
        => ret.results # NoMatches

\* the rows of results rs that were matched on column c of cataloged table x
RowsOf(rs, x, c) ==
    BFlatMap(rs, LAMBDA r :
        IF /\ r.package_name = x[1].package_name
           /\ r.parent_dir = x[1].parent_dir
           /\ r.database_name = x[1].database_name
           /\ r.table_name = x[2]
           /\ r.column_name = c
        THEN << [k \in 1..Len(r.row_data) |-> r.row_data[k][2]] >> ELSE <<>>)

\* the rows among the first 10,000 of cataloged table x whose cell of column
\* number c, stringified, matches the pattern of the last search
CappedMatches(x, c) ==
    BFilter(BTake(FullScan(x[1], x[2]), 10000),
            LAMBDA row : RegexSearch(ret.search_term, PyStr(row[c]),
                                     ~ret.case_sensitive))

(***************************************************************************)
(* C12: the result of a regex-mode search is, for every cataloged table    *)
(* and column, exactly the cells among the first 10,000 rows of the table  *)
(* whose stringified value matches the pattern, case ignored iff           *)
(* case_sensitive is false; rows beyond the cap never appear and the index *)
(* contributes nothing.                                                    *)
(***************************************************************************)
C12_RegexExactWithinCap ==
    (ret.op = "global_search" /\ ret.use_regex /\ RegexValid(ret.search_term)) =>
        \A x \in Cataloged : \A c \in 1..Len(DiskTable(x).columns) :
              LET got == RowsOf(ret.results, x, DiskTable(x).columns[c])
                  want == CappedMatches(x, c)
              IN BLen(got) = BLen(want) /\ BSet(got) = BSet(want)

(***************************************************************************)
(* C13: a get_table_data call makes at most two query attempts: it makes   *)
(* the second one, after the fixed delay, exactly when the first one met   *)
(* "database is locked"; any other error is not retried; and whenever the  *)
(* last attempt failed the call returns ([], []).                          *)
(***************************************************************************)
C13_BoundedRetry ==
    ret.op = "get_table_data" =>
        /\ Len(ret.attempts) <= 2
        /\ Len(ret.attempts) = 2 <=> (ret.attempts # <<>> /\ ret.attempts[1] = "locked")
        /\ ret.slept <=> Len(ret.attempts) = 2
        /\ (ret.attempts # <<>> /\ ret.attempts[Len(ret.attempts)] # "ok")
              => (ret.columns = <<>> /\ ret.rows = <<>>)

\* a call whose first attempt met the lock and whose retry failed too
C13_Witness ==
    /\ ret.op = "get_table_data"
    /\ ret.attempts = <<"locked", "error">>
    /\ ret.slept
    /\ ret.rows = <<>>

(***************************************************************************)
(* C14: after any Table Accessor operation has returned, whether its query *)
(* succeeded or failed, the connection it opened is closed: between calls  *)
(* no connection is open.                                                  *)
(***************************************************************************)
C14_NoOpenConnections == connections = 0

\* the <<package, directory, database>> keys of self.databases or of
\* self.cached_data
KeysOf(d) ==
    UNION { UNION { { <<d[i][1], d[i][2][j][1], d[i][2][j][2][k][1]>> :
                        k \in 1..Len(d[i][2][j][2]) } :
                    j \in 1..Len(d[i][2]) } :
            i \in 1..Len(d) }

\* the candidate database files of a package list that exist on disk:
\* <<package number, directory number, file number>>
Candidates(packages) ==
    UNION { UNION { { <<i, j, k>> : k \in { n \in 1..Len(packages[i].database_files[j][2]) :
                         packages[i].database_files[j][2][n].file_path \in DOMAIN disk } } :
                    j \in 1..Len(packages[i].database_files) } :
            i \in 1..Len(packages) }

\* DatabaseInfo info is the entry of candidate c
EntryOf(packages, c, info) ==
    /\ info.package_name = packages[c[1]].package_name
    /\ info.parent_dir = packages[c[1]].database_files[c[2]][1]
    /\ info.database_name = packages[c[1]].database_files[c[2]][2][c[3]].file_name
    /\ info.database_path = packages[c[1]].database_files[c[2]][2][c[3]].file_path

(***************************************************************************)
(* C15: after any sequence of loads the catalog and the cache reflect the  *)
(* last package list only: one DatabaseEntry for each of its candidate     *)
(* database files that exists on disk, also when two files of one logical  *)
(* directory or two packages share a name, nothing from an earlier load,   *)
(* and the cache has the keys of the catalog.                              *)
(***************************************************************************)
C15_LoadReplacesCatalog ==
    ret.op = "load_databases" =>
        LET infos == DbInfos(databases)
            cands == Candidates(ret.packages)
        IN /\ Len(infos) = Cardinality(cands)
           /\ \A c \in cands : \E i \in 1..Len(infos) : EntryOf(ret.packages, c, infos[i])
           /\ \A i \in 1..Len(infos) : \E c \in cands : EntryOf(ret.packages, c, infos[i])
           /\ KeysOf(cached_data) = KeysOf(databases)

\* posting r names cataloged table x
Names(r, x) ==
    /\ r.package_name = x[1].package_name
    /\ r.parent_dir = x[1].parent_dir
    /\ r.database_name = x[1].database_name
    /\ r.table_name = x[2]

\* all postings of the search index
Postings == UNION { BSet(search_index[w]) : w \in DOMAIN search_index }

(***************************************************************************)
(* C16: after any sequence of loads, every posting of the search index     *)
(* names a (package, directory, database, table) that has a TableSnapshot  *)
(* now, and its row is a row of that snapshot; a table of more than 1000   *)
(* rows has no posting.                                                    *)
(***************************************************************************)
C16_PostingsFromSnapshots ==
    /\ \A r \in Postings :
          LET snap == CacheGet(cached_data, r.package_name, r.parent_dir,
                               r.database_name, r.table_name)
          IN /\ snap # <<>>
             /\ \E row \in BSet(snap[1].rows) :
                   r.row_data = RowData(snap[1].columns, row)
    /\ \A x \in Cataloged :
          RowCount(x[1], x[2]) > 1000 => \A r \in Postings : ~Names(r, x)

\* a later load has built an index with postings while the catalog holds a
\* table of more than 1000 rows
C16_Witness ==
    /\ ret.op = "load_databases"
    /\ Postings # {}
    /\ \E x \in Cataloged : RowCount(x[1], x[2]) > 1000 /\ BareIdentifier(x[2])

(***************************************************************************)
(* C17: a load skips a table whose row-count query fails: the table gets   *)
(* no TableSnapshot, and the load goes on with the other tables, databases *)
(* and packages: every candidate file that exists is cataloged.            *)
(***************************************************************************)
C17_FailedCountSkipped ==
    ret.op = "load_databases" =>
        /\ \A x \in Cataloged : ~CountSucceeded(x[1], x[2]) => ~HasSnapshot(x[1], x[2])
        /\ \A c \in Candidates(ret.packages) :
              \E i \in 1..Len(DbInfos(databases)) :
                  EntryOf(ret.packages, c, DbInfos(databases)[i])

C19_SubChecksDecide ==
    (ret.op = "detect_file_type" /\ Len(ret.data) >= 12) =>
        LET tag == Slice(ret.data, 8, 12)
        IN /\ StartsWith(ret.data, B_RIFF) =>
                  /\ tag = B_WAVE => ret.result = ".wav"
                  /\ tag = B_AVI  => ret.result = ".avi"
                  /\ tag = B_WEBP => ret.result = ".webp"
           /\ Slice(ret.data, 4, 8) = B_ftyp =>
                  /\ tag = B_M4V => ret.result = ".m4v"
                  /\ tag \in {B_mp41, B_mp42, B_isom, B_M4A} => ret.result = ".mp4"

(***************************************************************************)
(* C20: export_all_attachments writes every exported blob to a path of its *)
(* own in both grouping modes: no two records of one run have the same     *)
(* file_path, and the files of ./output after the run are total_files many.*)
(***************************************************************************)
C20_OwnDestination ==
    (ret.op = "export_all_attachments" /\ ret.report # <<>>) =>
        /\ \A i, j \in 1..Len(ret.report[1].exported_files) :
               i # j => ret.report[1].exported_files[i].file_path
                            # ret.report[1].exported_files[j].file_path
        /\ Len(output) = ret.report[1].total_files

\* the last call was an export that returned a report
Exported == ret.op = "export_all_attachments" /\ ret.report # <<>>

\* the cells the report of the last export has a record for
RecordedCells ==
    { <<r.package, r.database, r.table, r.column, r.row>> :
          r \in Range(ret.report[1].exported_files) }

\* <<row, column>> positions of table x that hold a binary value of more
\* than 150 bytes with a label of the classifier
LabelledIn(x) ==
    { e \in (1..RowCount(x[1], x[2]))
            \X (1..Len(DictGet(FileTables(x[1].database_path), x[2]).columns)) :
        LET cell == BAt(FullScan(x[1], x[2]), e[1])[e[2]]
        IN /\ cell.t = "blob"
           /\ Len(BlobBytes(cell)) > 150
           /\ detect_file_type(BlobBytes(cell)) # None }

\* these cells of all cataloged tables, named as the records name them
LabelledBlobs ==
    UNION { { <<x[1].package_name, x[1].database_name, x[2],
                DictGet(FileTables(x[1].database_path), x[2]).columns[e[2]], e[1]>> :
                  e \in LabelledIn(x) } :
            x \in Cataloged }

(***************************************************************************)
(* C21: an export run has a record for a cell if and only if the cell is a *)
(* binary value of more than 150 bytes for which the classifier returns a  *)
(* label; nothing else is written: every file under ./output is the        *)
(* file_path of a record.                                                  *)
(***************************************************************************)
C21_RecordIffLabelledBlob ==
    Exported =>
        /\ RecordedCells = LabelledBlobs
        /\ \A k \in 1..Len(output) :
               \E r \in Range(ret.report[1].exported_files) : r.file_path = output[k][1]

(***************************************************************************)
(* C22: the destination root being recreated, the export returns a report, *)
(* and the report covers every database that can be opened: a table whose  *)
(* queries fail, or a database file that cannot be opened, is passed over  *)
(* and the labelled blobs of every other table are recorded.               *)
(***************************************************************************)
C22_FailureConfined ==
    ret.op = "export_all_attachments" =>
        /\ ret.report # <<>>
        /\ \A x \in Cataloged :
               (x[1].database_path \notin ret.unopenable /\ BareIdentifier(x[2]))
                   => \A e \in LabelledIn(x) :
                          <<x[1].package_name, x[1].database_name, x[2],
                            DictGet(FileTables(x[1].database_path), x[2]).columns[e[2]],
                            e[1]>> \in RecordedCells

(***************************************************************************)
(* C23: an export that follows an export with the same grouping flag, on   *)
(* the same catalog and files, leaves the same files under ./output and    *)
(* returns the same report; files of an earlier run do not accumulate:     *)
(* after a run that returned a report, every file under ./output is one    *)
(* that this run wrote.                                                    *)
(***************************************************************************)
C23_RerunSameOutcome ==
    [][ (ret'.op = "export_all_attachments") =>
          /\ (/\ ret.op = "export_all_attachments"
              /\ ret'.export_by_package = ret.export_by_package
              /\ ret'.unopenable = ret.unopenable
              /\ databases' = databases)
                 => (output' = output /\ ret'.report = ret.report)
          /\ ret'.report # <<>> =>
                 { output'[k][1] : k \in 1..Len(output') }
                     = { r.file_path : r \in Range(ret'.report[1].exported_files) }
      ]_vars

\* an export has run over a destination root that held files, has written
\* files and has returned a report
C23_Witness ==
    /\ Exported
    /\ ret.had_files
    /\ output # <<>>

\* what a load keeps of a plainly named table with the contents of table x:
\* <<its TableSnapshot>> when it has at most 1000 rows, else <<>>
PlainlyNamedSnapshot(x) ==
    IF RowCount(x[1], x[2]) <= 1000
    THEN << CachedTableData(DictGet(FileTables(x[1].database_path), x[2]).columns,
                            FullScan(x[1], x[2]), RowCount(x[1], x[2])) >>
    ELSE <<>>

(***************************************************************************)
(* C24: a table whose name holds unusual characters such as a space is     *)
(* handled as a plainly named table with the same contents: the load       *)
(* counts and caches it alike, a paged read of it returns the same page.   *)
(***************************************************************************)
C24_UnusualNameAlike ==
    \A x \in Cataloged :
        ~BareIdentifier(x[2]) =>
            /\ CacheGet(cached_data, x[1].package_name, x[1].parent_dir,
                        x[1].database_name, x[2]) = PlainlyNamedSnapshot(x)
            /\ (/\ ret.op = "get_table_data"
                /\ ret.package_name = x[1].package_name
                /\ ret.parent_dir = x[1].parent_dir
                /\ ret.db_name = x[1].database_name
                /\ ret.table_name = x[2]
                /\ \A k \in 1..Len(ret.attempts) : ret.attempts[k] = "ok")
                   => BNorm(ret.rows)
                          = BNorm(BSlice(FullScan(x[1], x[2]), ret.offset,
                                         ret.offset + ret.limit))

\* the characters the tokens are split on
Separator(ch) == ch \in {" ", ",", ".", ":"}

\* the pieces of s between separators, in their order
PiecesOf(s) ==
    LET starts == { i \in 1..Len(s) :
                      ~Separator(s[i]) /\ (i = 1 \/ Separator(s[i - 1])) }
        start(k) == CHOOSE i \in starts : Cardinality({j \in starts : j <= i}) = k
        piece(i) == SubSeq(s, i, CHOOSE j \in i..Len(s) :
                                     /\ \A m \in i..j : ~Separator(s[m])
                                     /\ (j = Len(s) \/ Separator(s[j + 1])))
    IN [k \in 1..Cardinality(starts) |-> piece(start(k))]

\* the tokens of a cell: the pieces of its lowercased str() longer than 1
TokensOf(cell) ==
    IF cell = Null THEN <<>>
    ELSE SelectSeq(PiecesOf(StrLower(PyStr(cell))), LAMBDA t : Len(t) > 1)

\* a list without its run-length coding
BExpand(bs) == [i \in 1..BLen(bs) |-> BAt(bs, i)]

\* the postings of token w for the rows of one snapshot, row by row, column
\* by column, one for each occurrence of w among the tokens of the cell
SnapshotPostings(w, package_name, parent_dir, db_name, table_name, snap) ==
    LET rows == BExpand(snap.rows)
    IN Concat([r \in 1..Len(rows) |->
         Concat([c \in 1..Min(Len(snap.columns), Len(rows[r])) |->
            LET hits == SelectSeq(TokensOf(rows[r][c]), LAMBDA t : t = w)
            IN [h \in 1..Len(hits) |->
                  SearchResult(package_name, db_name, table_name, snap.columns[c],
                               RowData(snap.columns, rows[r]),
                               PyStr(rows[r][c]), parent_dir)]])])

\* the token index of the cache for token w, in the order of the cache
TokenIndex(w) ==
    Concat([p \in 1..Len(cached_data) |->
      Concat([d \in 1..Len(cached_data[p][2]) |->
        Concat([b \in 1..Len(cached_data[p][2][d][2]) |->
          Concat([t \in 1..Len(cached_data[p][2][d][2][b][2]) |->
            SnapshotPostings(w, cached_data[p][1], cached_data[p][2][d][1],
                             cached_data[p][2][d][2][b][1],
                             cached_data[p][2][d][2][b][2][t][1],
                             cached_data[p][2][d][2][b][2][t][2])])])])])

\* the tokens of all cells of the cache
CacheTokens ==
    UNION { UNION { UNION { UNION { UNION {
        UNION { Range(TokensOf(row[c])) : c \in 1..Len(row) } :
            row \in BSet(t[2].rows) } :
          t \in Range(b[2]) } :
        b \in Range(d[2]) } :
      d \in Range(p[2]) } :
    p \in Range(cached_data) }

(***************************************************************************)
(* C25: after a load the search index is the token index of the cache: its *)
(* keys are the tokens of the cached non-null cells (the pieces, longer    *)
(* than 1, of the lowercased str() of the cell split on whitespace and on  *)
(* ',', '.', ':'), the postings under a token are those of the cells that  *)
(* hold it, in table/row/column traversal order, and no key has length     *)
(* <= 1 or holds an upper-case letter, whitespace or ',', '.', ':'.        *)
(***************************************************************************)
C25_IndexIsTokenIndex ==
    /\ DOMAIN search_index = CacheTokens
    /\ \A w \in DOMAIN search_index :
          /\ BExpand(search_index[w]) = TokenIndex(w)
          /\ Len(w) > 1
          /\ \A k \in 1..Len(w) : ~Separator(w[k]) /\ w[k] \notin Range(UpperChars)

\* a load has indexed a cell that holds upper-case letters and punctuation
C25_Witness ==
    /\ ret.op = "load_databases"
    /\ <<"c", "d">> \in DOMAIN search_index
    /\ \E r \in BSet(search_index[<<"c", "d">>]) : r.match_value = S_punct

(***************************************************************************)
(* C26: during load, search and export no connection stays open across the *)
(* queries of more than one table: every connection the operation opens    *)
(* runs the statements of at most one table.                               *)
(***************************************************************************)
C26_ConnectionPerTable ==
    ret.op \in {"load_databases", "global_search", "export_all_attachments"} =>
        \A k \in 1..Len(ret.scopes) : Len(ret.scopes[k]) <= 1

(***************************************************************************)
(* C27: global_search in every mode (an invalid regex and a term that      *)
(* makes every fallback query fail included), get_table_data,              *)
(* get_table_info and get_database_statistics leave the catalog, the cache *)
(* and the search index unchanged: across every step that is one of these  *)
(* calls the three structures stay what the last load built.               *)
(***************************************************************************)
ReadOps ==
    {"global_search", "get_table_data", "get_table_info",
     "get_database_statistics"}

C27_ReadsLeaveStructures ==
    [][ ret'.op \in ReadOps =>
          /\ databases' = databases
          /\ cached_data' = cached_data
          /\ search_index' = search_index ]_vars

\* a page was read from the file of a cataloged database whose table is
\* not cached
C27_Witness ==
    /\ ret.op = "get_table_data"
    /\ ret.attempts # <<>>
    /\ ret.rows # <<>>
    /\ databases # <<>>
    /\ CacheGet(cached_data, ret.package_name, ret.parent_dir, ret.db_name,
                ret.table_name) = <<>>

(***************************************************************************)
(* C28: within one get_table_data call at most one database connection is  *)
(* open at any moment: the connection that met "database is locked" is     *)
(* closed before the retry opens its own.                                  *)
(***************************************************************************)
C28_OneConnectionAtATime ==
    ret.op = "get_table_data" => ret.peak <= 1

(***************************************************************************)
(* C29: a regex-mode search never returns a result for a NULL cell: every  *)
(* SearchResult it returns names a column whose value in the result's row  *)
(* is not null.                                                            *)
(***************************************************************************)
C29_RegexSkipsNull ==
    (ret.op = "global_search" /\ ret.use_regex) =>
        \A r \in BSet(ret.results) :
            DictGet(r.row_data, r.column_name).t # "null"

(***************************************************************************)
(* C30: a plain-mode search with case_sensitive = true returns, for the    *)
(* cached tables, the (package, database, table, column, match_value)      *)
(* tuples of exactly the cached cells that contain the term as it is       *)
(* written, letter case included.                                          *)
(***************************************************************************)
\* the tuples of the cells of the cached table x that contain the term
SubstringKeys(x, term) ==
    LET snap == CacheGet(cached_data, x[1].package_name, x[1].parent_dir,
                         x[1].database_name, x[2])[1]
    IN { <<x[1].package_name, x[1].database_name, x[2], cell[1], PyStr(cell[2])>> :
            cell \in { c \in CellsOf(snap.columns, snap.rows) :
                          c[2].t # "null" /\ Contains(PyStr(c[2]), term) } }

C30_CaseSensitiveIsSubstringTest ==
    (PlainSearch /\ ret.case_sensitive) =>
        { Key(r) : r \in { q \in BSet(ret.results) :
                              CacheGet(cached_data, q.package_name, q.parent_dir,
                                       q.database_name, q.table_name) # <<>> } }
        = UNION { SubstringKeys(x, ret.search_term) :
                    x \in { y \in Cataloged : HasSnapshot(y[1], y[2]) } }

====
